---- MODULE Spec2Model ----
(***************************************************************************)
(* A model of rsyslog's generic object runtime (obj.c): the serializer,    *)
(* the deserializer with its recovery scan, and the capability calls the   *)
(* deserializer makes, the class descriptors with their method tables,     *)
(* the class registry and the interface query.  Characters are             *)
(* one-character strings; a stream is a record holding the bytes written   *)
(* so far, the read offset and the single pushback slot.                   *)
(***************************************************************************)
EXTENDS Integers, Sequences, FiniteSets, TLC

VARIABLES
    NDEBUG,     \* build configuration: TRUE when assert() is compiled out
    strm,       \* the stream object: [buf, pos, iUngetC]
    wrote,      \* history: the writer-side operations on the stream, in order
    pc,         \* position of the running deserialize call
    call,       \* the running (or last) deserialize call and its locals
    pVar,       \* the var_t objDeserializeProperties reuses for every line
    log,        \* history: capability calls made by the running (or last) call
    ppObj,      \* the caller's output pointer of Deserialize
    hist,       \* history: summaries of the calls that returned
    objInfos,   \* the objInfo_t descriptors InfoConstruct has allocated
    registry,   \* arrObjInfo[] as RegisterObj fills it, and the memory behind it
    pIf,        \* the interface struct the caller hands to the interface query
    ret,        \* the last descriptor, registry or interface call and its result
    setLog      \* history: the <<descriptor, slot>> pairs given to InfoSetMethod

objVars == <<objInfos, registry, pIf, ret, setLog>>
vars == <<NDEBUG, strm, wrote, pc, call, pVar, log, ppObj, hist, objVars>>

(***************************************************************************)
(* Bounds of the model.                                                    *)
(***************************************************************************)
MaxRecords == 2     \* records the writer begins
MaxProps == 1       \* SerializeProp calls over the whole run
MaxGarbage == 1     \* damage bytes put on the stream
MaxCalls == 2       \* deserialize calls made by the reader
MaxInt == 120       \* SpecNum: integers range over -MaxInt .. MaxInt
MaxTimeField == 59  \* SpecTime: each numeric subfield is 0 or MaxTimeField

(***************************************************************************)
(* Return codes and enumerations.                                          *)
(***************************************************************************)
RS_RET_OK == "RS_RET_OK"
RS_RET_EOF == "RS_RET_EOF"
RS_RET_INVALID_NUMBER == "RS_RET_INVALID_NUMBER"
RS_RET_INVALID_DELIMITER == "RS_RET_INVALID_DELIMITER"
RS_RET_INVALID_HEADER == "RS_RET_INVALID_HEADER"
RS_RET_INVALID_HEADER_RECTYPE == "RS_RET_INVALID_HEADER_RECTYPE"
RS_RET_INVALID_HEADER_VERS == "RS_RET_INVALID_HEADER_VERS"
RS_RET_INVALID_OID == "RS_RET_INVALID_OID"
RS_RET_INVALID_PROPFRAME == "RS_RET_INVALID_PROPFRAME"
RS_RET_INVALID_TRAILER == "RS_RET_INVALID_TRAILER"
RS_RET_NO_PROPLINE == "RS_RET_NO_PROPLINE"
RS_RET_PROVIDED_BUFFER_TOO_SMALL == "RS_RET_PROVIDED_BUFFER_TOO_SMALL"
RS_RET_NOT_IMPLEMENTED == "RS_RET_NOT_IMPLEMENTED"
RS_RET_IO_ERROR == "RS_RET_IO_ERROR"
RS_RET_ERR == "RS_RET_ERR"      \* any failure a capability of a class reports
SIGABRT == "SIGABRT"            \* not a return code: the process was aborted

COOKIE_OBJLINE == "<"
COOKIE_PROPLINE == "+"
COOKIE_ENDLINE == ">"
COOKIE_BLANKLINE == "."
NL == "\n"

\* varType_t (var.h): the numbers written as the type tag of a property line
VARTYPE_NONE == 0
VARTYPE_STR == 1
VARTYPE_NUMBER == 2
VARTYPE_SYSLOGTIME == 3

\* objID_t (obj-types.h): class ids are 1 .. OBJ_NUM_IDS-1; the model keeps two
OBJ_NUM_IDS == 3
SZBUF_SIZE == 64        \* uchar szBuf[64] of SerializeProp

PropTypes == {"PROPTYPE_PSZ", "PROPTYPE_SHORT", "PROPTYPE_INT", "PROPTYPE_LONG",
              "PROPTYPE_INT64", "PROPTYPE_CSTR", "PROPTYPE_SYSLOGTIME"}

(***************************************************************************)
(* Values.  A syslogTime_t, a var_t and the pUsr argument of SerializeProp *)
(* are records with every field present, so any two compare.               *)
(***************************************************************************)
NoTime == [timeType |-> 0, year |-> 0, month |-> 0, day |-> 0, hour |-> 0,
           minute |-> 0, second |-> 0, secfrac |-> 0, secfracPrecision |-> 0,
           OffsetMode |-> "", OffsetHour |-> 0, OffsetMinute |-> 0]
NoVar == [pcsName |-> <<>>, varType |-> VARTYPE_NONE, pStr |-> <<>>, num |-> 0,
          vSyslogTime |-> NoTime]
NULL == [null |-> TRUE, pStr |-> <<>>, num |-> 0, vSyslogTime |-> NoTime]
UsrStr(s) == [null |-> FALSE, pStr |-> s, num |-> 0, vSyslogTime |-> NoTime]
UsrNum(n) == [null |-> FALSE, pStr |-> <<>>, num |-> n, vSyslogTime |-> NoTime]
UsrTime(t) == [null |-> FALSE, pStr |-> <<>>, num |-> 0, vSyslogTime |-> t]

\* With(e, F) is F applied to the value of e: e is evaluated once and named
With(e, F(_)) == CHOOSE v \in {F(x) : x \in {e}} : TRUE

(***************************************************************************)
(* Characters and decimal conversion.                                      *)
(***************************************************************************)
Digits == <<"0", "1", "2", "3", "4", "5", "6", "7", "8", "9">>
isdigit(c) == \E i \in 1..10 : Digits[i] = c
DigitVal(c) == (CHOOSE i \in 1..10 : Digits[i] = c) - 1

\* the digits of n >= 0, most significant first (the do..while of the
\* integer formatting routine: at least one digit is produced)
RECURSIVE DecDigits(_)
DecDigits(n) ==
    IF n < 10 THEN <<Digits[n + 1]>>
    ELSE DecDigits(n \div 10) \o <<Digits[(n % 10) + 1]>>

\* srUtilItoA: "-" for a negative number, then the digits of its magnitude
srUtilItoA(n) == IF n < 0 THEN <<"-">> \o DecDigits(-n) ELSE DecDigits(n)

\* snprintf("%d", n)
FmtD(n) == IF n < 0 THEN <<"-">> \o DecDigits(-n) ELSE DecDigits(n)

(***************************************************************************)
(* The stream collaborator (stream.c): append-only writes framed by       *)
(* transactional records, reads one character at a time, one pushback      *)
(* slot.  Besides its bytes the stream record keeps                        *)
(*   begins, commits  the offsets at which strmRecordBegin opened and      *)
(*                    strmRecordEnd committed a record, in order;          *)
(*   calls            the strmReadChar and strmUnreadChar calls made on    *)
(*                    it, in order, each with its character;               *)
(*   faultIn          how many more write-side calls succeed before one    *)
(*                    fails (-1: none fails);                              *)
(*   iRet             the iRet of the serializer call in progress: a       *)
(*                    write-side call under CHKiRet is not made once an    *)
(*                    earlier one of the same call has failed.             *)
(***************************************************************************)
NewStrm == [buf |-> <<>>, pos |-> 0, iUngetC |-> <<>>, begins |-> <<>>,
            commits |-> <<>>, calls |-> <<>>, faultIn |-> -1, iRet |-> RS_RET_OK]

\* CHKiRet(<write-side call>): done is the stream after the call succeeded
CHKiRet(st, done) ==
    IF st.iRet # RS_RET_OK THEN st
    ELSE IF st.faultIn = 0 THEN [st EXCEPT !.iRet = RS_RET_IO_ERROR, !.faultIn = -1]
    ELSE [done EXCEPT !.faultIn = IF @ > 0 THEN @ - 1 ELSE @]

\* RETiRet of a serializer call: [iRet, st]
RETiRet(st) == [iRet |-> st.iRet, st |-> [st EXCEPT !.iRet = RS_RET_OK]]

strmRecordBegin(st) == CHKiRet(st, [st EXCEPT !.begins = Append(@, Len(st.buf))])
strmRecordEnd(st) == CHKiRet(st, [st EXCEPT !.commits = Append(@, Len(st.buf))])
strmWriteChar(st, c) == CHKiRet(st, [st EXCEPT !.buf = @ \o <<c>>])
strmWrite(st, s) == CHKiRet(st, [st EXCEPT !.buf = @ \o s])
strmWriteLong(st, n) ==
    CHKiRet(st, [st EXCEPT !.buf = @ \o (IF n < 0 THEN <<"-">> \o DecDigits(-n)
                                         ELSE DecDigits(n))])

strmReadChar(st) ==
    IF st.iUngetC # <<>>
    THEN [iRet |-> RS_RET_OK, c |-> st.iUngetC[1],
          st |-> [st EXCEPT !.iUngetC = <<>>,
                            !.calls = Append(@, <<"strmReadChar", st.iUngetC[1]>>)]]
    ELSE IF st.pos < Len(st.buf)
    THEN [iRet |-> RS_RET_OK, c |-> st.buf[st.pos + 1],
          st |-> [st EXCEPT !.pos = @ + 1,
                            !.calls = Append(@, <<"strmReadChar", st.buf[st.pos + 1]>>)]]
    ELSE [iRet |-> RS_RET_EOF, c |-> "",
          st |-> [st EXCEPT !.calls = Append(@, <<"strmReadChar", "">>)]]

strmUnreadChar(st, c) ==
    [st EXCEPT !.iUngetC = <<c>>, !.calls = Append(@, <<"strmUnreadChar", c>>)]

\* what a reader of st will still see, pushback first
Unread(st) == st.iUngetC \o SubSeq(st.buf, st.pos + 1, Len(st.buf))

(***************************************************************************)
(* Class descriptors (objInfo_t) of the registered classes: name, version  *)
(* and whether the construction finalizer slot holds a handler.            *)
(***************************************************************************)
ClassIds == 1..(OBJ_NUM_IDS - 1)
arrObjInfo ==
    [id \in ClassIds |->
        IF id = 1
        THEN [pszName |-> <<"q">>, iObjVers |-> 1, hasFinalizer |-> TRUE]
        ELSE [pszName |-> <<"m", "s">>, iObjVers |-> 10 + id, hasFinalizer |-> FALSE]]
objGetObjID(pObj) == pObj.objID
objGetVersion(pObj) == arrObjInfo[pObj.objID].iObjVers
objGetClassName(pObj) == arrObjInfo[pObj.objID].pszName
objInfoIsImplemented(oID, method) ==
    IF method = "objMethod_CONSTRUCTION_FINALIZER" THEN arrObjInfo[oID].hasFinalizer
    ELSE TRUE

(***************************************************************************)
(* Serializer.                                                             *)
(***************************************************************************)
objSerializeHeader(st, pObj, pszRecType) ==
    LET s1 == strmWriteChar(st, COOKIE_OBJLINE)
        s2 == strmWrite(s1, pszRecType)
        s3 == strmWriteChar(s2, ":")
        s4 == strmWriteChar(s3, "1")
        s5 == strmWriteChar(s4, ":")
        s6 == strmWriteLong(s5, objGetObjID(pObj))
        s7 == strmWriteChar(s6, ":")
        s8 == strmWriteLong(s7, objGetVersion(pObj))
        s9 == strmWriteChar(s8, ":")
        s10 == strmWrite(s9, objGetClassName(pObj))
        s11 == strmWriteChar(s10, ":")
    IN  strmWriteChar(s11, NL)

\* the text snprintf produces for a syslogTime_t: 12 fields joined by ':'
FmtSyslogTime(t) ==
    FmtD(t.timeType) \o <<":">> \o FmtD(t.year) \o <<":">> \o FmtD(t.month) \o <<":">>
    \o FmtD(t.day) \o <<":">> \o FmtD(t.hour) \o <<":">> \o FmtD(t.minute) \o <<":">>
    \o FmtD(t.second) \o <<":">> \o FmtD(t.secfrac) \o <<":">>
    \o FmtD(t.secfracPrecision) \o <<":">> \o <<t.OffsetMode>> \o <<":">>
    \o FmtD(t.OffsetHour) \o <<":">> \o FmtD(t.OffsetMinute)

\* the switch of SerializeProp: [iRet, pszBuf, lenBuf, vType]
SerializePropEncode(propType, pUsr) ==
    CASE propType \in {"PROPTYPE_PSZ", "PROPTYPE_CSTR"} ->
            [iRet |-> RS_RET_OK, pszBuf |-> pUsr.pStr, lenBuf |-> Len(pUsr.pStr),
             vType |-> VARTYPE_STR]
      [] propType \in {"PROPTYPE_SHORT", "PROPTYPE_INT", "PROPTYPE_LONG", "PROPTYPE_INT64"} ->
            [iRet |-> RS_RET_OK, pszBuf |-> srUtilItoA(pUsr.num),
             lenBuf |-> Len(srUtilItoA(pUsr.num)), vType |-> VARTYPE_NUMBER]
      [] propType = "PROPTYPE_SYSLOGTIME" ->
            With(FmtSyslogTime(pUsr.vSyslogTime), LAMBDA txt :
                IF Len(txt) > SZBUF_SIZE - 1
                THEN [iRet |-> RS_RET_PROVIDED_BUFFER_TOO_SMALL, pszBuf |-> <<>>,
                      lenBuf |-> Len(txt), vType |-> VARTYPE_NONE]
                ELSE [iRet |-> RS_RET_OK, pszBuf |-> txt, lenBuf |-> Len(txt),
                      vType |-> VARTYPE_SYSLOGTIME])
      [] OTHER ->
            [iRet |-> RS_RET_OK, pszBuf |-> <<>>, lenBuf |-> 0, vType |-> VARTYPE_NONE]

\* SerializeProp without "if(pUsr == NULL) ABORT_FINALIZE(RS_RET_OK)", the
\* absent value read as zeroes: C8_Omission rejects it
SerializePropLine_NoNullCheck(st, pszPropName, propType, pUsr) ==
    With(SerializePropEncode(propType, pUsr), LAMBDA e :
         IF e.iRet # RS_RET_OK THEN [iRet |-> e.iRet, st |-> st]
         ELSE LET s1 == strmWriteChar(st, COOKIE_PROPLINE)
                  s2 == strmWrite(s1, pszPropName)
                  s3 == strmWriteChar(s2, ":")
                  s4 == strmWriteLong(s3, e.vType)
                  s5 == strmWriteChar(s4, ":")
                  s6 == strmWriteLong(s5, e.lenBuf)
                  s7 == strmWriteChar(s6, ":")
                  s8 == strmWrite(s7, e.pszBuf)
                  s9 == strmWriteChar(s8, ":")
              IN  RETiRet(strmWriteChar(s9, NL)))

\* SerializeProp on stream st: [iRet, st]
SerializePropLine(st, pszPropName, propType, pUsr) ==
    IF pUsr.null THEN [iRet |-> RS_RET_OK, st |-> st]
    ELSE With(SerializePropEncode(propType, pUsr), LAMBDA e :
         IF e.iRet # RS_RET_OK THEN [iRet |-> e.iRet, st |-> st]
         ELSE LET s1 == strmWriteChar(st, COOKIE_PROPLINE)
                  s2 == strmWrite(s1, pszPropName)
                  s3 == strmWriteChar(s2, ":")
                  s4 == strmWriteLong(s3, e.vType)
                  s5 == strmWriteChar(s4, ":")
                  s6 == strmWriteLong(s5, e.lenBuf)
                  s7 == strmWriteChar(s6, ":")
                  s8 == strmWrite(s7, e.pszBuf)
                  s9 == strmWriteChar(s8, ":")
              IN  RETiRet(strmWriteChar(s9, NL)))

\* EndSerializeWrite with the record committed before its trailer is
\* written: C22_TransactionFraming rejects it
EndSerializeWrite_CommitFirst(st) ==
    LET s0 == strmRecordEnd(st)
        s1 == strmWriteChar(s0, COOKIE_ENDLINE)
        s2 == strmWrite(s1, <<"E", "n", "d", NL>>)
        s3 == strmWriteChar(s2, COOKIE_BLANKLINE)
    IN  strmWriteChar(s3, NL)

\* the stream calls of EndSerialize: the trailer, then the commit
EndSerializeWrite(st) ==
    LET s1 == strmWriteChar(st, COOKIE_ENDLINE)
        s2 == strmWrite(s1, <<"E", "n", "d", NL>>)
        s3 == strmWriteChar(s2, COOKIE_BLANKLINE)
        s4 == strmWriteChar(s3, NL)
    IN  strmRecordEnd(s4)

(***************************************************************************)
(* Deserializer: grammar primitives.  Each returns a record holding iRet   *)
(* and the stream as the call left it.  NEXTC followed by a comparison is  *)
(* Expect; a chain of them is ExpectAll.                                   *)
(***************************************************************************)
\* NEXTC; if(c != want) ABORT_FINALIZE(err)
Expect(st, want, err) ==
    With(strmReadChar(st), LAMBDA r :
        IF r.iRet # RS_RET_OK THEN [iRet |-> r.iRet, st |-> r.st]
        ELSE IF r.c # want THEN [iRet |-> err, st |-> r.st]
        ELSE [iRet |-> RS_RET_OK, st |-> r.st])

\* consecutive NEXTC checks; wants is a sequence of <<character, error>>
RECURSIVE ExpectAll(_, _)
ExpectAll(st, wants) ==
    IF wants = <<>> THEN [iRet |-> RS_RET_OK, st |-> st]
    ELSE With(Expect(st, wants[1][1], wants[1][2]), LAMBDA r :
            IF r.iRet # RS_RET_OK THEN r ELSE ExpectAll(r.st, Tail(wants)))

\* the while(isdigit(c)) loop of objDeserializeNumber: [iRet, st, c, i]
RECURSIVE NumberLoop(_, _, _)
NumberLoop(st, c, i) ==
    IF ~isdigit(c) THEN [iRet |-> RS_RET_OK, st |-> st, c |-> c, i |-> i]
    ELSE With(strmReadChar(st), LAMBDA r :
            IF r.iRet # RS_RET_OK
            THEN [iRet |-> r.iRet, st |-> r.st, c |-> c, i |-> i * 10 + DigitVal(c)]
            ELSE NumberLoop(r.st, r.c, i * 10 + DigitVal(c)))

\* NumberDigits without "if(bIsNegative) i *= -1": C9_IntegerCodec rejects it
NumberDigits_NoSign(r, bIsNegative) ==
    IF r.iRet # RS_RET_OK THEN [iRet |-> r.iRet, st |-> r.st, num |-> 0]
    ELSE IF ~isdigit(r.c) THEN [iRet |-> RS_RET_INVALID_NUMBER, st |-> r.st, num |-> 0]
    ELSE With(NumberLoop(r.st, r.c, 0), LAMBDA l :
            IF l.iRet # RS_RET_OK THEN [iRet |-> l.iRet, st |-> l.st, num |-> 0]
            ELSE IF l.c # ":" THEN [iRet |-> RS_RET_INVALID_DELIMITER, st |-> l.st, num |-> 0]
            ELSE [iRet |-> RS_RET_OK, st |-> l.st, num |-> l.i])

\* objDeserializeNumber after the optional sign: r is the NEXTC that read the
\* first character behind it
NumberDigits(r, bIsNegative) ==
    IF r.iRet # RS_RET_OK THEN [iRet |-> r.iRet, st |-> r.st, num |-> 0]
    ELSE IF ~isdigit(r.c) THEN [iRet |-> RS_RET_INVALID_NUMBER, st |-> r.st, num |-> 0]
    ELSE With(NumberLoop(r.st, r.c, 0), LAMBDA l :
            IF l.iRet # RS_RET_OK THEN [iRet |-> l.iRet, st |-> l.st, num |-> 0]
            ELSE IF l.c # ":" THEN [iRet |-> RS_RET_INVALID_DELIMITER, st |-> l.st, num |-> 0]
            ELSE [iRet |-> RS_RET_OK, st |-> l.st,
                  num |-> IF bIsNegative THEN l.i * (-1) ELSE l.i])

\* objDeserializeNumber: [iRet, st, num]
objDeserializeNumber(st) ==
    With(strmReadChar(st), LAMBDA r1 :
        IF r1.iRet # RS_RET_OK THEN [iRet |-> r1.iRet, st |-> r1.st, num |-> 0]
        ELSE IF r1.c = "-" THEN With(strmReadChar(r1.st), LAMBDA r2 : NumberDigits(r2, TRUE))
        ELSE NumberDigits(r1, FALSE))

\* the for loop of objDeserializeStr: [iRet, st, c, s]
RECURSIVE StrLoop(_, _, _, _, _)
StrLoop(st, c, i, iLen, s) ==
    IF ~(i < iLen) THEN [iRet |-> RS_RET_OK, st |-> st, c |-> c, s |-> s]
    ELSE With(strmReadChar(st), LAMBDA r :
            IF r.iRet # RS_RET_OK
            THEN [iRet |-> r.iRet, st |-> r.st, c |-> c, s |-> s \o <<c>>]
            ELSE StrLoop(r.st, r.c, i + 1, iLen, s \o <<c>>))

\* objDeserializeStr: [iRet, st, pStr]; assert(iLen > 0) aborts unless NDEBUG
objDeserializeStr(iLen, st) ==
    IF ~NDEBUG /\ ~(iLen > 0) THEN [iRet |-> SIGABRT, st |-> st, pStr |-> <<>>]
    ELSE With(strmReadChar(st), LAMBDA r :
        IF r.iRet # RS_RET_OK THEN [iRet |-> r.iRet, st |-> r.st, pStr |-> <<>>]
        ELSE With(StrLoop(r.st, r.c, 0, iLen, <<>>), LAMBDA l :
            IF l.iRet # RS_RET_OK THEN [iRet |-> l.iRet, st |-> l.st, pStr |-> <<>>]
            ELSE IF l.c # ":"
            THEN [iRet |-> RS_RET_INVALID_DELIMITER, st |-> l.st, pStr |-> <<>>]
            ELSE [iRet |-> RS_RET_OK, st |-> l.st, pStr |-> l.s]))

\* n consecutive GETVALs: [iRet, st, vals]
RECURSIVE GetVals(_, _, _)
GetVals(st, n, vals) ==
    IF n = 0 THEN [iRet |-> RS_RET_OK, st |-> st, vals |-> vals]
    ELSE With(objDeserializeNumber(st), LAMBDA r :
            IF r.iRet # RS_RET_OK THEN [iRet |-> r.iRet, st |-> r.st, vals |-> vals]
            ELSE GetVals(r.st, n - 1, Append(vals, r.num)))

\* SyslogTimeFrom with GETVAL(day) and GETVAL(month) exchanged:
\* C10_TimestampFidelity rejects it
SyslogTimeFrom_Swapped(v, OffsetMode, w) ==
    [timeType |-> v[1], year |-> v[2], month |-> v[4], day |-> v[3], hour |-> v[5],
     minute |-> v[6], second |-> v[7], secfrac |-> v[8], secfracPrecision |-> v[9],
     OffsetMode |-> OffsetMode, OffsetHour |-> w[1], OffsetMinute |-> w[2]]

\* the syslogTime_t whose fields were assigned in the order GETVAL names them
SyslogTimeFrom(v, OffsetMode, w) ==
    [timeType |-> v[1], year |-> v[2], month |-> v[3], day |-> v[4], hour |-> v[5],
     minute |-> v[6], second |-> v[7], secfrac |-> v[8], secfracPrecision |-> v[9],
     OffsetMode |-> OffsetMode, OffsetHour |-> w[1], OffsetMinute |-> w[2]]

\* objDeserializeSyslogTime: [iRet, st, vSyslogTime]
objDeserializeSyslogTime(st) ==
    With(GetVals(st, 9, <<>>), LAMBDA g1 :
      IF g1.iRet # RS_RET_OK THEN [iRet |-> g1.iRet, st |-> g1.st, vSyslogTime |-> NoTime]
      ELSE With(strmReadChar(g1.st), LAMBDA m :
        IF m.iRet # RS_RET_OK THEN [iRet |-> m.iRet, st |-> m.st, vSyslogTime |-> NoTime]
        ELSE With(Expect(m.st, ":", RS_RET_INVALID_DELIMITER), LAMBDA d :
          IF d.iRet # RS_RET_OK THEN [iRet |-> d.iRet, st |-> d.st, vSyslogTime |-> NoTime]
          ELSE With(GetVals(d.st, 2, <<>>), LAMBDA g2 :
            IF g2.iRet # RS_RET_OK
            THEN [iRet |-> g2.iRet, st |-> g2.st, vSyslogTime |-> NoTime]
            ELSE [iRet |-> RS_RET_OK, st |-> g2.st,
                  vSyslogTime |-> SyslogTimeFrom(g1.vals, m.c, g2.vals)]))))

\* NEXTC; while(c != '\n') NEXTC;  of objDeserializeHeader: [iRet, st]
RECURSIVE SkipToNL(_)
SkipToNL(st) ==
    With(strmReadChar(st), LAMBDA r :
        IF r.iRet # RS_RET_OK THEN [iRet |-> r.iRet, st |-> r.st]
        ELSE IF r.c = NL THEN [iRet |-> RS_RET_OK, st |-> r.st]
        ELSE SkipToNL(r.st))

\* the seven NEXTC checks that open objDeserializeHeader
HeaderCookie(pszRecType) ==
    << <<COOKIE_OBJLINE, RS_RET_INVALID_HEADER>>,
       <<pszRecType[1], RS_RET_INVALID_HEADER_RECTYPE>>,
       <<pszRecType[2], RS_RET_INVALID_HEADER_RECTYPE>>,
       <<pszRecType[3], RS_RET_INVALID_HEADER_RECTYPE>>,
       <<":", RS_RET_INVALID_HEADER>>,
       <<"1", RS_RET_INVALID_HEADER_VERS>>,
       <<":", RS_RET_INVALID_HEADER_VERS>> >>

\* objDeserializeHeader: [iRet, st, oID, oVers]
objDeserializeHeader(pszRecType, st) ==
    With(ExpectAll(st, HeaderCookie(pszRecType)), LAMBDA h :
      IF h.iRet # RS_RET_OK THEN [iRet |-> h.iRet, st |-> h.st, oID |-> 0, oVers |-> 0]
      ELSE With(objDeserializeNumber(h.st), LAMBDA ioID :
        IF ioID.iRet # RS_RET_OK
        THEN [iRet |-> ioID.iRet, st |-> ioID.st, oID |-> 0, oVers |-> 0]
        ELSE With(objDeserializeNumber(ioID.st), LAMBDA oVers :
          IF oVers.iRet # RS_RET_OK
          THEN [iRet |-> oVers.iRet, st |-> oVers.st, oID |-> 0, oVers |-> 0]
          ELSE IF ioID.num < 1 \/ ioID.num >= OBJ_NUM_IDS
          THEN [iRet |-> RS_RET_INVALID_OID, st |-> oVers.st, oID |-> 0, oVers |-> 0]
          ELSE With(SkipToNL(oVers.st), LAMBDA k :
            IF k.iRet # RS_RET_OK THEN [iRet |-> k.iRet, st |-> k.st, oID |-> 0, oVers |-> 0]
            ELSE [iRet |-> RS_RET_OK, st |-> k.st, oID |-> ioID.num,
                  oVers |-> oVers.num]))))

\* the name loop of objDeserializeProperty: [iRet, st, s]
RECURSIVE NameLoop(_, _)
NameLoop(st, s) ==
    With(strmReadChar(st), LAMBDA r :
        IF r.iRet # RS_RET_OK THEN [iRet |-> r.iRet, st |-> r.st, s |-> s]
        ELSE IF r.c = ":" THEN [iRet |-> RS_RET_OK, st |-> r.st, s |-> s]
        ELSE NameLoop(r.st, s \o <<r.c>>))

\* the switch of objDeserializeProperty on the type tag: [iRet, st, var]; a
\* tag of no known type reads nothing and leaves the value as it was
DeserializeValue(pProp, iLen, st) ==
    CASE pProp.varType = VARTYPE_STR ->
            With(objDeserializeStr(iLen, st), LAMBDA r :
                [iRet |-> r.iRet, st |-> r.st,
                 var |-> IF r.iRet = RS_RET_OK THEN [pProp EXCEPT !.pStr = r.pStr]
                         ELSE pProp])
      [] pProp.varType = VARTYPE_NUMBER ->
            With(objDeserializeNumber(st), LAMBDA r :
                [iRet |-> r.iRet, st |-> r.st,
                 var |-> IF r.iRet = RS_RET_OK THEN [pProp EXCEPT !.num = r.num]
                         ELSE pProp])
      [] pProp.varType = VARTYPE_SYSLOGTIME ->
            With(objDeserializeSyslogTime(st), LAMBDA r :
                [iRet |-> r.iRet, st |-> r.st,
                 var |-> IF r.iRet = RS_RET_OK
                         THEN [pProp EXCEPT !.vSyslogTime = r.vSyslogTime]
                         ELSE pProp])
      [] OTHER -> [iRet |-> RS_RET_OK, st |-> st, var |-> pProp]

PropertyFields_OneKind(p1, st) ==
    With(objDeserializeNumber(st), LAMBDA i :
      IF i.iRet # RS_RET_OK
      THEN [iRet |-> RS_RET_INVALID_PROPFRAME, st |-> i.st, var |-> p1]
      ELSE With(objDeserializeNumber(i.st), LAMBDA iLen :
        IF iLen.iRet # RS_RET_OK
        THEN [iRet |-> RS_RET_INVALID_PROPFRAME, st |-> iLen.st,
              var |-> [p1 EXCEPT !.varType = i.num]]
        ELSE With(DeserializeValue([p1 EXCEPT !.varType = i.num], iLen.num, iLen.st),
                  LAMBDA v :
          IF v.iRet # RS_RET_OK THEN [v EXCEPT !.iRet = RS_RET_INVALID_PROPFRAME]
          ELSE With(Expect(v.st, NL, RS_RET_INVALID_PROPFRAME), LAMBDA e :
                  [iRet |-> e.iRet, st |-> e.st, var |-> v.var]))))

\* objDeserializeProperty from the type tag on: the name has been read
PropertyFields(p1, st) ==
    With(objDeserializeNumber(st), LAMBDA i :
      IF i.iRet # RS_RET_OK THEN [iRet |-> i.iRet, st |-> i.st, var |-> p1]
      ELSE With(objDeserializeNumber(i.st), LAMBDA iLen :
        IF iLen.iRet # RS_RET_OK
        THEN [iRet |-> iLen.iRet, st |-> iLen.st, var |-> [p1 EXCEPT !.varType = i.num]]
        ELSE With(DeserializeValue([p1 EXCEPT !.varType = i.num], iLen.num, iLen.st),
                  LAMBDA v :
          IF v.iRet # RS_RET_OK THEN v
          ELSE With(Expect(v.st, NL, RS_RET_INVALID_PROPFRAME), LAMBDA e :
                  [iRet |-> e.iRet, st |-> e.st, var |-> v.var]))))

objDeserializeProperty_NoUnget(pProp, st) ==
    With(strmReadChar(st), LAMBDA r :
      IF r.iRet # RS_RET_OK THEN [iRet |-> r.iRet, st |-> r.st, var |-> pProp]
      ELSE IF r.c # COOKIE_PROPLINE
      THEN [iRet |-> RS_RET_NO_PROPLINE, st |-> r.st, var |-> pProp]
      ELSE With(NameLoop(r.st, <<>>), LAMBDA nm :
        IF nm.iRet # RS_RET_OK
        THEN [iRet |-> nm.iRet, st |-> nm.st, var |-> [pProp EXCEPT !.pcsName = nm.s]]
        ELSE PropertyFields([pProp EXCEPT !.pcsName = nm.s], nm.st)))

\* objDeserializeProperty: [iRet, st, var]
objDeserializeProperty(pProp, st) ==
    With(strmReadChar(st), LAMBDA r :
      IF r.iRet # RS_RET_OK THEN [iRet |-> r.iRet, st |-> r.st, var |-> pProp]
      ELSE IF r.c # COOKIE_PROPLINE
      THEN [iRet |-> RS_RET_NO_PROPLINE, st |-> strmUnreadChar(r.st, r.c), var |-> pProp]
      ELSE With(NameLoop(r.st, <<>>), LAMBDA nm :
        IF nm.iRet # RS_RET_OK
        THEN [iRet |-> nm.iRet, st |-> nm.st, var |-> [pProp EXCEPT !.pcsName = nm.s]]
        ELSE PropertyFields([pProp EXCEPT !.pcsName = nm.s], nm.st)))

\* objDeserializeTrailer: [iRet, st]
objDeserializeTrailer(st) ==
    ExpectAll(st, << <<COOKIE_ENDLINE, RS_RET_INVALID_TRAILER>>,
                     <<"E", RS_RET_INVALID_TRAILER>>,
                     <<"n", RS_RET_INVALID_TRAILER>>,
                     <<"d", RS_RET_INVALID_TRAILER>>,
                     <<NL, RS_RET_INVALID_TRAILER>>,
                     <<COOKIE_BLANKLINE, RS_RET_INVALID_TRAILER>>,
                     <<NL, RS_RET_INVALID_TRAILER>> >>)

\* RecoverLoop stopping at any '<', whatever came before it:
\* C24_ResyncLanding rejects it
RECURSIVE RecoverLoop_AnyCookie(_, _)
RecoverLoop_AnyCookie(st, bWasNL) ==
    With(strmReadChar(st), LAMBDA r :
        IF r.iRet # RS_RET_OK THEN [iRet |-> r.iRet, st |-> r.st, c |-> ""]
        ELSE IF r.c = COOKIE_OBJLINE
        THEN [iRet |-> RS_RET_OK, st |-> r.st, c |-> r.c]
        ELSE RecoverLoop_AnyCookie(r.st, FALSE))

\* the while(bRun) loop of objDeserializeTryRecover: [iRet, st, c]
RECURSIVE RecoverLoop(_, _)
RecoverLoop(st, bWasNL) ==
    With(strmReadChar(st), LAMBDA r :
        IF r.iRet # RS_RET_OK THEN [iRet |-> r.iRet, st |-> r.st, c |-> ""]
        ELSE IF r.c = NL THEN RecoverLoop(r.st, TRUE)
        ELSE IF bWasNL /\ r.c = COOKIE_OBJLINE
        THEN [iRet |-> RS_RET_OK, st |-> r.st, c |-> r.c]
        ELSE RecoverLoop(r.st, FALSE))

\* objDeserializeTryRecover handing back both characters of the boundary
\* it found, the newline and the cookie: C23_PushbackDiscipline rejects it
objDeserializeTryRecover_UnreadBoth(st) ==
    With(RecoverLoop(st, FALSE), LAMBDA l :
        IF l.iRet # RS_RET_OK THEN [iRet |-> l.iRet, st |-> l.st]
        ELSE [iRet |-> RS_RET_OK, st |-> strmUnreadChar(strmUnreadChar(l.st, l.c), NL)])

\* objDeserializeTryRecover: [iRet, st]
objDeserializeTryRecover(st) ==
    With(RecoverLoop(st, FALSE), LAMBDA l :
        IF l.iRet # RS_RET_OK THEN [iRet |-> l.iRet, st |-> l.st]
        ELSE [iRet |-> RS_RET_OK, st |-> strmUnreadChar(l.st, l.c)])

(***************************************************************************)
(* Inputs of the operations.                                               *)
(***************************************************************************)
OBJ == <<"O", "b", "j">>
OPB == <<"O", "P", "B">>
Time1 == [timeType |-> 2, year |-> 2008, month |-> 1, day |-> 7, hour |-> 0,
          minute |-> 59, second |-> 0, secfrac |-> 123, secfracPrecision |-> 3,
          OffsetMode |-> "-", OffsetHour |-> 1, OffsetMinute |-> 30]
\* <<propType, pUsr>> pairs SerializeProp is called with in Spec
PropNames == {<<"a">>}
PropInputs ==
    { <<"PROPTYPE_PSZ", NULL>>,
      <<"PROPTYPE_PSZ", UsrStr(<<":", NL>>)>>,
      <<"PROPTYPE_INT", UsrNum(-42)>> }
GarbageChars == {"x", NL, COOKIE_OBJLINE}

\* one entry of the writer history
WEvent(op, recType, objID, name, propType, pUsr, c, iRet, st) ==
    [op |-> op, recType |-> recType, objID |-> objID, pszPropName |-> name,
     propType |-> propType, pUsr |-> pUsr, c |-> c, iRet |-> iRet,
     end |-> Len(st.buf), at |-> 0]
NumOf(op) == Cardinality({i \in 1..Len(wrote) : wrote[i].op = op})
RecOpen == NumOf("begin") > NumOf("end")
Writing == pc = "idle" /\ hist = <<>>

(***************************************************************************)
(* Writer-side operations.                                                 *)
(***************************************************************************)
BeginRecord(pObj, pszRecType) ==
    /\ Writing /\ ~RecOpen
    /\ \E r \in {RETiRet(objSerializeHeader(strmRecordBegin(strm), pObj, pszRecType))} :
       /\ strm' = r.st
       /\ wrote' = Append(wrote, WEvent("begin", pszRecType, pObj.objID, <<>>, "", NULL,
                                        "", r.iRet, r.st))
    /\ UNCHANGED <<objVars, NDEBUG, pc, call, pVar, log, ppObj, hist>>

BeginSerialize(pObj) == BeginRecord(pObj, OBJ)

BeginSerializePropBag(pObj) == BeginRecord(pObj, OPB)

SerializeProp(pszPropName, propType, pUsr) ==
    /\ Writing /\ RecOpen
    /\ \E r \in {SerializePropLine(strm, pszPropName, propType, pUsr)} :
       /\ strm' = r.st
       /\ wrote' = Append(wrote, WEvent("prop", <<>>, 0, pszPropName, propType, pUsr, "",
                                        r.iRet, r.st))
    /\ UNCHANGED <<objVars, NDEBUG, pc, call, pVar, log, ppObj, hist>>

EndSerialize ==
    /\ Writing /\ RecOpen
    /\ \E r \in {RETiRet(EndSerializeWrite(strm))} :
       /\ strm' = r.st
       /\ wrote' = Append(wrote, WEvent("end", <<>>, 0, <<>>, "", NULL, "", r.iRet, r.st))
    /\ UNCHANGED <<objVars, NDEBUG, pc, call, pVar, log, ppObj, hist>>

\* damage: a byte that no serializer call wrote lands on the stream
Garbage(c) ==
    /\ Writing
    /\ strm' = [strm EXCEPT !.buf = @ \o <<c>>]
    /\ wrote' = Append(wrote, WEvent("garbage", <<>>, 0, <<>>, "", NULL, c, RS_RET_OK,
                                  strm'))
    /\ UNCHANGED <<objVars, NDEBUG, pc, call, pVar, log, ppObj, hist>>

\* the stored stream is damaged in place: byte number at becomes c
Damage(at, c) ==
    /\ Writing
    /\ at \in 1..Len(strm.buf)
    /\ strm.buf[at] # c
    /\ strm' = [strm EXCEPT !.buf[at] = c]
    /\ wrote' = Append(wrote, [WEvent("damage", <<>>, 0, <<>>, "", NULL, c, RS_RET_OK,
                                      strm') EXCEPT !.at = at])
    /\ UNCHANGED <<objVars, NDEBUG, pc, call, pVar, log, ppObj, hist>>

\* the stored stream is cut short: only its first at bytes are left
Truncate(at) ==
    /\ Writing
    /\ at \in 0..(Len(strm.buf) - 1)
    /\ strm' = [strm EXCEPT !.buf = SubSeq(@, 1, at)]
    /\ wrote' = Append(wrote, [WEvent("truncate", <<>>, 0, <<>>, "", NULL, "", RS_RET_OK,
                                      strm') EXCEPT !.at = at])
    /\ UNCHANGED <<objVars, NDEBUG, pc, call, pVar, log, ppObj, hist>>

\* the stream's device starts failing: of the write-side calls made from now
\* on (record begin, writes, record end), n succeed and the next one fails
StreamFault(n) ==
    /\ Writing
    /\ strm.faultIn = -1
    /\ strm' = [strm EXCEPT !.faultIn = n]
    /\ wrote' = Append(wrote, [WEvent("fault", <<>>, 0, <<>>, "", NULL, "", RS_RET_OK,
                                      strm') EXCEPT !.at = n])
    /\ UNCHANGED <<objVars, NDEBUG, pc, call, pVar, log, ppObj, hist>>

(***************************************************************************)
(* Reader-side operations.  A call is begun by one of the three entry      *)
(* points and then runs step by step; pc names the statement it is at.     *)
(***************************************************************************)
NoCall == [op |-> "", objID |-> 0, fFixup |-> FALSE, oID |-> 0, iRet |-> RS_RET_OK,
           iRetLocal |-> RS_RET_OK, pObj |-> FALSE, start |-> 0]
LogEvent(ev, var, res) == [ev |-> ev, var |-> var, res |-> res]
CapResults == {RS_RET_OK, RS_RET_ERR}

BeginCall(op, objID, fFixup) ==
    /\ pc = "idle"
    /\ call' = [NoCall EXCEPT !.op = op, !.objID = objID, !.fFixup = fFixup,
                              !.start = strm.pos]
    /\ pc' = "hdr"
    /\ log' = <<>>
    /\ ppObj' = "unset"
    /\ pVar' = NoVar
    /\ UNCHANGED <<objVars, NDEBUG, strm, wrote, hist>>

Deserialize(objTypeExpected, fFixup) == BeginCall("Deserialize", objTypeExpected, fFixup)

objDeserializeObjAsPropBag(pObj) == BeginCall("objDeserializeObjAsPropBag", pObj.objID, FALSE)

DeserializePropBag(pObj) == BeginCall("DeserializePropBag", pObj.objID, FALSE)

HeaderRecType_BagsOPB(op) == IF op = "Deserialize" THEN OBJ ELSE OPB

\* the record type each entry point passes to objDeserializeHeader
HeaderRecType(op) == IF op = "DeserializePropBag" THEN OPB ELSE OBJ

\* do { iRetLocal = objDeserializeHeader(...)
HeaderStep ==
    /\ pc = "hdr"
    /\ \E r \in {objDeserializeHeader(HeaderRecType(call.op), strm)} :
       /\ strm' = r.st
       /\ call' = [call EXCEPT !.iRetLocal = r.iRet, !.oID = r.oID]
       /\ pc' = IF r.iRet = RS_RET_OK THEN "oid" ELSE "hdrfail"
    /\ UNCHANGED <<objVars, NDEBUG, wrote, pVar, log, ppObj, hist>>

\* Deserialize, header failed: dbgprintf(...); abort();
HeaderFailAbort ==
    /\ pc = "hdrfail"
    /\ call.op = "Deserialize"
    /\ pc' = "aborted"
    /\ call' = [call EXCEPT !.iRet = SIGABRT]
    /\ UNCHANGED <<objVars, NDEBUG, strm, wrote, pVar, log, ppObj, hist>>

\* the property bag readers, header failed: CHKiRet(objDeserializeTryRecover(pStrm))
HeaderFailRecover ==
    /\ pc = "hdrfail"
    /\ call.op # "Deserialize"
    /\ \E r \in {objDeserializeTryRecover(strm)} :
       /\ strm' = r.st
       /\ call' = [call EXCEPT !.iRet = r.iRet]
       /\ pc' = IF r.iRet = RS_RET_OK THEN "hdr" ELSE "fin"
    /\ UNCHANGED <<objVars, NDEBUG, wrote, pVar, log, ppObj, hist>>

\* OidCheck without the comparison: C5_ClassIdMismatch rejects it
OidCheck_Unchecked ==
    /\ pc = "oid"
    /\ call' = call
    /\ pc' = IF call.op = "Deserialize" THEN "ctor" ELSE "props"
    /\ UNCHANGED <<objVars, NDEBUG, strm, wrote, pVar, log, ppObj, hist>>

\* if(oID != objTypeExpected) ABORT_FINALIZE(RS_RET_INVALID_OID);
OidCheck ==
    /\ pc = "oid"
    /\ IF call.oID # call.objID
       THEN /\ call' = [call EXCEPT !.iRet = RS_RET_INVALID_OID]
            /\ pc' = "fin"
       ELSE /\ call' = call
            /\ pc' = IF call.op = "Deserialize" THEN "ctor" ELSE "props"
    /\ UNCHANGED <<objVars, NDEBUG, strm, wrote, pVar, log, ppObj, hist>>

\* CHKiRet(arrObjInfo[oID]->objMethods[objMethod_CONSTRUCT](&pObj));
Construct(res) ==
    /\ pc = "ctor"
    /\ log' = Append(log, LogEvent("construct", NoVar, res))
    /\ call' = [call EXCEPT !.iRet = res, !.pObj = (res = RS_RET_OK)]
    /\ pc' = IF res = RS_RET_OK THEN "props" ELSE "fin"
    /\ UNCHANGED <<objVars, NDEBUG, strm, wrote, pVar, ppObj, hist>>

\* PropertyStep with the setter called without CHKiRet, its result dropped:
\* C7_NoPartialResult rejects it
PropertyStep_Unchecked(res) ==
    /\ pc = "props"
    /\ \E r \in {objDeserializeProperty(pVar, strm)} :
       /\ strm' = r.st
       /\ pVar' = r.var
       /\ IF r.iRet = RS_RET_OK
          THEN /\ log' = Append(log, LogEvent("setProperty", r.var, res))
               /\ call' = [call EXCEPT !.iRet = RS_RET_OK]
               /\ pc' = "props"
          ELSE /\ log' = log
               /\ res = RS_RET_OK
               /\ call' = [call EXCEPT !.iRet = r.iRet]
               /\ pc' = CASE r.iRet = RS_RET_NO_PROPLINE -> "trailer"
                          [] r.iRet = SIGABRT -> "aborted"
                          [] OTHER -> "fin"
    /\ UNCHANGED <<objVars, NDEBUG, wrote, ppObj, hist>>

\* one pass of the loop of objDeserializeProperties: objDeserializeProperty,
\* then the class's property setter on the line it parsed
PropertyStep(res) ==
    /\ pc = "props"
    /\ \E r \in {objDeserializeProperty(pVar, strm)} :
       /\ strm' = r.st
       /\ pVar' = r.var
       /\ IF r.iRet = RS_RET_OK
          THEN /\ log' = Append(log, LogEvent("setProperty", r.var, res))
               /\ call' = [call EXCEPT !.iRet = res]
               /\ pc' = IF res = RS_RET_OK THEN "props" ELSE "fin"
          ELSE /\ log' = log
               /\ res = RS_RET_OK
               /\ call' = [call EXCEPT !.iRet = r.iRet]
               /\ pc' = CASE r.iRet = RS_RET_NO_PROPLINE -> "trailer"
                          [] r.iRet = SIGABRT -> "aborted"
                          [] OTHER -> "fin"
    /\ UNCHANGED <<objVars, NDEBUG, wrote, ppObj, hist>>

TrailerStep_Recovering ==
    /\ pc = "trailer"
    /\ \E r \in {objDeserializeTrailer(strm)} :
       /\ strm' = r.st
       /\ call' = [call EXCEPT !.iRet = r.iRet]
       /\ pc' = IF r.iRet # RS_RET_OK THEN "hdrfail"
                ELSE IF call.op = "Deserialize" THEN "fixup" ELSE "fin"
    /\ UNCHANGED <<objVars, NDEBUG, wrote, pVar, log, ppObj, hist>>

\* CHKiRet(objDeserializeTrailer(pStrm));
TrailerStep ==
    /\ pc = "trailer"
    /\ \E r \in {objDeserializeTrailer(strm)} :
       /\ strm' = r.st
       /\ call' = [call EXCEPT !.iRet = r.iRet]
       /\ pc' = IF r.iRet = RS_RET_OK /\ call.op = "Deserialize" THEN "fixup" ELSE "fin"
    /\ UNCHANGED <<objVars, NDEBUG, wrote, pVar, log, ppObj, hist>>

FixupStep_Skipped(res) ==
    /\ pc = "fixup"
    /\ res = RS_RET_OK
    /\ log' = log
    /\ call' = call
    /\ pc' = "final"
    /\ UNCHANGED <<objVars, NDEBUG, strm, wrote, pVar, ppObj, hist>>

\* if(fFixup != NULL) CHKiRet(fFixup(pObj, pUsr));
FixupStep(res) ==
    /\ pc = "fixup"
    /\ IF call.fFixup
       THEN /\ log' = Append(log, LogEvent("fFixup", NoVar, res))
            /\ call' = [call EXCEPT !.iRet = res]
            /\ pc' = IF res = RS_RET_OK THEN "final" ELSE "fin"
       ELSE /\ res = RS_RET_OK
            /\ log' = log
            /\ call' = call
            /\ pc' = "final"
    /\ UNCHANGED <<objVars, NDEBUG, strm, wrote, pVar, ppObj, hist>>

\* the construction finalizer, when the class has one; then *ppObj = pObj
FinalizerStep(res) ==
    /\ pc = "final"
    /\ IF objInfoIsImplemented(call.oID, "objMethod_CONSTRUCTION_FINALIZER")
       THEN /\ log' = Append(log, LogEvent("constructionFinalizer", NoVar, res))
            /\ call' = [call EXCEPT !.iRet = res]
            /\ ppObj' = IF res = RS_RET_OK THEN "pObj" ELSE ppObj
       ELSE /\ res = RS_RET_OK
            /\ log' = log
            /\ call' = call
            /\ ppObj' = "pObj"
    /\ pc' = "fin"
    /\ UNCHANGED <<objVars, NDEBUG, strm, wrote, pVar, hist>>

\* finalize_it: of Deserialize releases the instance of a failed call with
\* free(); the property bag readers just return
Finalize ==
    /\ pc = "fin"
    /\ log' = IF call.op = "Deserialize" /\ call.iRet # RS_RET_OK /\ call.pObj
              THEN Append(log, LogEvent("free", NoVar, RS_RET_OK))
              ELSE log
    /\ hist' = Append(hist, [op |-> call.op, objID |-> call.objID,
                             fFixup |-> call.fFixup, iRet |-> call.iRet,
                             log |-> log', ppObj |-> ppObj, start |-> call.start])
    /\ pc' = "idle"
    /\ UNCHANGED <<objVars, NDEBUG, strm, wrote, call, pVar, ppObj>>

(***************************************************************************)
(* Class descriptors and their method tables.  A descriptor is named by    *)
(* its index in objInfos; 0 is the NULL pointer.                           *)
(***************************************************************************)
RS_RET_OUT_OF_MEMORY == "RS_RET_OUT_OF_MEMORY"
RS_RET_INTERFACE_NOT_SUPPORTED == "RS_RET_INTERFACE_NOT_SUPPORTED"
SIGSEGV == "SIGSEGV"            \* not a return code: the process was killed

MaxInfos == 1           \* SpecInfo: descriptors InfoConstruct allocates
\* objMethod_t (obj-types.h): slot 0 is the constructor, slot 1 the
\* destructor; the model keeps two optional slots behind them
OBJ_NUM_METHODS == 4
Slots == 0..(OBJ_NUM_METHODS - 1)
objInfoNotImplementedDummy == "objInfoNotImplementedDummy"
Handlers == {"pHandler"}

\* the result of calling a method-table entry: the sentinel reports
\* RS_RET_NOT_IMPLEMENTED, a handler of the class reports res
CallHandler(pHandler, res) ==
    IF pHandler = objInfoNotImplementedDummy THEN RS_RET_NOT_IMPLEMENTED ELSE res

\* the macro objInfoIsImplemented on a descriptor of objInfos
IsImplemented(pThis, method) == pThis.objMethods[method] # objInfoNotImplementedDummy

\* calloc(1, sizeof(objInfo_t))
CallocInfo == [pszName |-> <<>>, iObjVers |-> 0, objID |-> 0,
               objMethods |-> [i \in Slots |-> "NULL"]]

NewObjInfo_From3(objID, pszName, iObjVers, pConstruct, pDestruct) ==
    [pszName |-> pszName, iObjVers |-> iObjVers, objID |-> objID,
     objMethods |-> [i \in Slots |->
        IF i = 0 THEN pConstruct
        ELSE IF i = 1 THEN pDestruct
        ELSE IF i >= 3 THEN objInfoNotImplementedDummy
        ELSE CallocInfo.objMethods[i]]]

\* the descriptor InfoConstruct fills in
NewObjInfo(objID, pszName, iObjVers, pConstruct, pDestruct) ==
    [pszName |-> pszName, iObjVers |-> iObjVers, objID |-> objID,
     objMethods |-> [i \in Slots |->
        IF i = 0 THEN pConstruct
        ELSE IF i = 1 THEN pDestruct
        ELSE IF i >= 2 THEN objInfoNotImplementedDummy
        ELSE CallocInfo.objMethods[i]]]

\* the record of a call: its arguments, its result, and the descriptors and
\* the registry as they were when it was made
Ret(fn, pThis, objMethod, pHandler, oID, ifVersion, accessed, iRet) ==
    [fn |-> fn, pThis |-> pThis, objMethod |-> objMethod, pHandler |-> pHandler,
     oID |-> oID, ifVersion |-> ifVersion, accessed |-> accessed, iRet |-> iRet,
     preInfos |-> objInfos, preReg |-> registry]

ioVars == <<strm, wrote, call, pVar, log, ppObj, hist>>

\* InfoConstruct: calloc may return NULL; *ppThis is the new descriptor
InfoConstruct(objID, pszName, iObjVers, pConstruct, pDestruct) ==
    /\ pc = "idle"
    /\ pDestruct # "NULL"
    /\ \E mem \in BOOLEAN :
         IF mem
         THEN /\ objInfos' = Append(objInfos,
                    NewObjInfo(objID, pszName, iObjVers, pConstruct, pDestruct))
              /\ ret' = Ret("InfoConstruct", Len(objInfos) + 1, 0, "NULL", objID, 0,
                            {}, RS_RET_OK)
         ELSE /\ objInfos' = objInfos
              /\ ret' = Ret("InfoConstruct", 0, 0, "NULL", objID, 0, {},
                            RS_RET_OUT_OF_MEMORY)
    /\ UNCHANGED <<NDEBUG, ioVars, pc, registry, pIf, setLog>>

StoreHandler_Shifted(pThis, objMethod, pHandler) ==
    [pThis EXCEPT !.objMethods[(objMethod + 1) % OBJ_NUM_METHODS] = pHandler]

\* pThis->objMethods[objMethod] = pHandler
StoreHandler(pThis, objMethod, pHandler) ==
    [pThis EXCEPT !.objMethods[objMethod] = pHandler]

\* InfoSetMethod: the slot index is only guarded by assert()
InfoSetMethod(pThis, objMethod, pHandler) ==
    /\ pc = "idle"
    /\ pThis \in 1..Len(objInfos)
    /\ objMethod \in Slots
    /\ setLog' = setLog \cup {<<pThis, objMethod>>}
    /\ IF ~NDEBUG /\ ~(objMethod > 0 /\ objMethod < OBJ_NUM_METHODS)
       THEN /\ pc' = "aborted"
            /\ ret' = Ret("InfoSetMethod", pThis, objMethod, pHandler, 0, 0, {}, SIGABRT)
            /\ objInfos' = objInfos
       ELSE /\ pc' = pc
            /\ objInfos' = [objInfos EXCEPT
                                ![pThis] = StoreHandler(@, objMethod, pHandler)]
            /\ ret' = Ret("InfoSetMethod", pThis, objMethod, pHandler, 0, 0, {}, RS_RET_OK)
    /\ UNCHANGED <<NDEBUG, ioVars, registry, pIf>>

\* a caller invokes pThis->objMethods[objMethod]
CallMethod(pThis, objMethod, res) ==
    /\ pc = "idle"
    /\ pThis \in 1..Len(objInfos)
    /\ objMethod \in Slots
    /\ ret' = Ret("CallMethod", pThis, objMethod, objInfos[pThis].objMethods[objMethod],
                  0, 0, {}, CallHandler(objInfos[pThis].objMethods[objMethod], res))
    /\ UNCHANGED <<NDEBUG, ioVars, pc, objInfos, registry, pIf, setLog>>

(***************************************************************************)
(* The class registry.  registry.arr is arrObjInfo[OBJ_NUM_IDS];           *)
(* registry.past is the word of memory behind the array, which a store at  *)
(* index OBJ_NUM_IDS lands in.                                             *)
(***************************************************************************)
\* objClassInit: every entry of the array is NULL
objClassInit == [arr |-> [i \in 0..(OBJ_NUM_IDS - 1) |-> 0], past |-> 0]

\* what assert(arrObjInfo[oID] == NULL) may find: nothing is read when the
\* assertion is compiled out; a read outside the array finds any value
CheckedEntry(oID) ==
    IF NDEBUG THEN {0}
    ELSE IF oID \in DOMAIN registry.arr THEN {registry.arr[oID]}
    ELSE {0, 1}

RegisterObj(oID, pInfo) ==
    /\ pc = "idle"
    /\ pInfo \in 1..Len(objInfos)
    /\ \E found \in CheckedEntry(oID), landed \in BOOLEAN :
         IF found # 0
         THEN /\ pc' = "aborted"
              /\ ret' = Ret("RegisterObj", pInfo, 0, "NULL", oID, 0, {oID}, SIGABRT)
              /\ registry' = registry
         ELSE IF oID < 1 \/ oID > OBJ_NUM_IDS
         THEN /\ pc' = pc
              /\ ret' = Ret("RegisterObj", pInfo, 0, "NULL", oID, 0,
                            IF NDEBUG THEN {} ELSE {oID}, RS_RET_INVALID_OID)
              /\ registry' = registry
         ELSE IF oID \in DOMAIN registry.arr
         THEN /\ pc' = pc
              /\ ret' = Ret("RegisterObj", pInfo, 0, "NULL", oID, 0, {oID}, RS_RET_OK)
              /\ registry' = [registry EXCEPT !.arr[oID] = pInfo]
         ELSE IF landed
         THEN /\ pc' = pc
              /\ ret' = Ret("RegisterObj", pInfo, 0, "NULL", oID, 0, {oID}, RS_RET_OK)
              /\ registry' = [registry EXCEPT !.past = pInfo]
         ELSE /\ pc' = "aborted"
              /\ ret' = Ret("RegisterObj", pInfo, 0, "NULL", oID, 0, {oID}, SIGSEGV)
              /\ registry' = registry
    /\ UNCHANGED <<NDEBUG, ioVars, objInfos, pIf, setLog>>

(***************************************************************************)
(* The interface query.                                                    *)
(***************************************************************************)
objCURR_IF_VERSION == 1
OBJobj == "OBJobj"
IfOps == {"InfoConstruct", "DestructObjSelf", "BeginSerializePropBag",
          "InfoSetMethod", "BeginSerialize", "SerializeProp", "EndSerialize",
          "RegisterObj", "Deserialize", "DeserializePropBag", "SetName", "GetName"}

\* the struct a caller hands in: the requested version, nothing else set
NewIf(ifVersion) == [ifVersion |-> ifVersion, oID |-> "unset", ops |-> {}]

\* the body of objQueryInterface: [iRet, pIf]
QueryInterface(p) ==
    IF p.ifVersion # objCURR_IF_VERSION
    THEN [iRet |-> RS_RET_INTERFACE_NOT_SUPPORTED, pIf |-> p]
    ELSE [iRet |-> RS_RET_OK, pIf |-> [p EXCEPT !.oID = OBJobj, !.ops = IfOps]]

objQueryInterface(ifVersion) ==
    /\ pc = "idle"
    /\ \E r \in {QueryInterface(NewIf(ifVersion))} :
         /\ pIf' = r.pIf
         /\ ret' = Ret("objQueryInterface", 0, 0, "NULL", 0, ifVersion, {}, r.iRet)
    /\ UNCHANGED <<NDEBUG, ioVars, pc, objInfos, registry, setLog>>

\* objGetObjInterface: iRet is set by DEFiRet and by nothing else
objGetObjInterface(ifVersion) ==
    /\ pc = "idle"
    /\ \E r \in {QueryInterface(NewIf(ifVersion))} :
         /\ pIf' = r.pIf
         /\ ret' = Ret("objGetObjInterface", 0, 0, "NULL", 0, ifVersion, {}, RS_RET_OK)
    /\ UNCHANGED <<NDEBUG, ioVars, pc, objInfos, registry, setLog>>

(***************************************************************************)
(* The specification.                                                      *)
(***************************************************************************)
Init ==
    /\ NDEBUG \in BOOLEAN
    /\ strm = NewStrm
    /\ wrote = <<>>
    /\ pc = "idle"
    /\ call = NoCall
    /\ pVar = NoVar
    /\ log = <<>>
    /\ ppObj = "unset"
    /\ hist = <<>>
    /\ objInfos = <<>>
    /\ registry = objClassInit
    /\ pIf = NewIf(0)
    /\ ret = Ret("none", 0, 0, "NULL", 0, 0, {}, RS_RET_OK)
    /\ setLog = {}

Instances == [objID : ClassIds]

\* the writer may add a property while a record is open and fewer than max
\* were written
CanWriteProp(max) == Writing /\ RecOpen /\ NumOf("prop") < max

\* the reader drains the stream by repeating its call: a further call is the
\* same entry point with the same arguments as the one before
CanCall(op, objID, fFixup) ==
    /\ pc = "idle"
    /\ Len(hist) < MaxCalls
    /\ hist # <<>> => /\ hist[Len(hist)].op = op
                      /\ hist[Len(hist)].objID = objID
                      /\ hist[Len(hist)].fFixup = fFixup

\* Spec: up to MaxRecords records of either kind with MaxProps properties in
\* all, MaxGarbage damage bytes anywhere between the writes, then MaxCalls
\* deserialize calls; every capability may fail
Next ==
    \/ \E pObj \in Instances : NumOf("begin") < MaxRecords /\ BeginSerialize(pObj)
    \/ \E pObj \in Instances : NumOf("begin") < MaxRecords /\ BeginSerializePropBag(pObj)
    \/ /\ CanWriteProp(MaxProps)
       /\ \E n \in PropNames, in \in PropInputs : SerializeProp(n, in[1], in[2])
    \/ EndSerialize
    \/ \E c \in GarbageChars : NumOf("garbage") < MaxGarbage /\ Garbage(c)
    \/ \E id \in ClassIds, f \in BOOLEAN :
            CanCall("Deserialize", id, f) /\ Deserialize(id, f)
    \/ \E pObj \in Instances :
            /\ CanCall("objDeserializeObjAsPropBag", pObj.objID, FALSE)
            /\ objDeserializeObjAsPropBag(pObj)
    \/ \E pObj \in Instances :
            /\ CanCall("DeserializePropBag", pObj.objID, FALSE)
            /\ DeserializePropBag(pObj)
    \/ HeaderStep
    \/ HeaderFailAbort
    \/ HeaderFailRecover
    \/ OidCheck
    \/ \E res \in CapResults : Construct(res)
    \/ \E res \in CapResults : PropertyStep(res)
    \/ TrailerStep
    \/ \E res \in CapResults : FixupStep(res)
    \/ \E res \in CapResults : FinalizerStep(res)
    \/ Finalize

Spec == Init /\ [][Next]_vars

(***************************************************************************)
(* One record, one call: a record of either kind, possibly damaged or cut  *)
(* short, is read by one call of any of the three deserialize operations.  *)
(***************************************************************************)
OneInputs ==
    { <<"PROPTYPE_PSZ", UsrStr(<<":", NL>>)>>,
      <<"PROPTYPE_INT", UsrNum(-42)>> }

NextOne ==
    \/ \E pObj \in Instances : NumOf("begin") = 0 /\ BeginSerialize(pObj)
    \/ \E pObj \in Instances : NumOf("begin") = 0 /\ BeginSerializePropBag(pObj)
    \/ /\ CanWriteProp(MaxProps)
       /\ \E n \in PropNames, in \in OneInputs : SerializeProp(n, in[1], in[2])
    \/ EndSerialize
    \/ \E c \in GarbageChars : NumOf("garbage") < MaxGarbage /\ Garbage(c)
    \/ \E id \in ClassIds, f \in BOOLEAN : hist = <<>> /\ Deserialize(id, f)
    \/ \E pObj \in Instances : hist = <<>> /\ objDeserializeObjAsPropBag(pObj)
    \/ \E pObj \in Instances : hist = <<>> /\ DeserializePropBag(pObj)
    \/ HeaderStep
    \/ HeaderFailAbort
    \/ HeaderFailRecover
    \/ OidCheck
    \/ \E res \in CapResults : Construct(res)
    \/ \E res \in CapResults : PropertyStep(res)
    \/ TrailerStep
    \/ \E res \in CapResults : FixupStep(res)
    \/ \E res \in CapResults : FinalizerStep(res)
    \/ Finalize

SpecOne == Init /\ [][NextOne]_vars

\* the statements of a deserialize call that has been entered.  The call is
\* one C function running on its caller's thread: while a statement of it
\* can run, the next one does run
Running ==
    \/ HeaderStep
    \/ HeaderFailAbort
    \/ HeaderFailRecover
    \/ OidCheck
    \/ \E res \in CapResults : Construct(res)
    \/ \E res \in CapResults : PropertyStep(res)
    \/ TrailerStep
    \/ \E res \in CapResults : FixupStep(res)
    \/ \E res \in CapResults : FinalizerStep(res)
    \/ Finalize

\* SpecOne with a call that was entered running on
SpecOneFair == Init /\ [][NextOne]_vars /\ WF_vars(Running)

(***************************************************************************)
(* Round trips: one Obj record, written whole and undamaged, is read back  *)
(* by one Deserialize call that expects the record's class.                *)
(***************************************************************************)
MaxRTProps == 2
RTNames == {<<"a">>, <<"b", "c">>}
RTInputs ==
    { <<"PROPTYPE_PSZ", NULL>>,
      <<"PROPTYPE_INT", NULL>>,
      <<"PROPTYPE_SYSLOGTIME", NULL>>,
      <<"PROPTYPE_PSZ", UsrStr(<<>>)>>,
      <<"PROPTYPE_PSZ", UsrStr(<<":", NL>>)>>,
      <<"PROPTYPE_CSTR", UsrStr(<<"s">>)>>,
      <<"PROPTYPE_INT", UsrNum(-42)>>,
      <<"PROPTYPE_SHORT", UsrNum(0)>>,
      <<"PROPTYPE_SYSLOGTIME", UsrTime(Time1)>> }

\* the reading half: one Deserialize call expecting the class written
ReadBack ==
    \/ \E f \in BOOLEAN :
            /\ NumOf("end") = 1 /\ hist = <<>>
            /\ Deserialize(wrote[1].objID, f)
    \/ HeaderStep
    \/ OidCheck
    \/ \E res \in CapResults : Construct(res)
    \/ \E res \in CapResults : PropertyStep(res)
    \/ TrailerStep
    \/ \E res \in CapResults : FixupStep(res)
    \/ \E res \in CapResults : FinalizerStep(res)
    \/ Finalize

NextRT ==
    \/ \E pObj \in Instances : wrote = <<>> /\ BeginSerialize(pObj)
    \/ /\ CanWriteProp(MaxRTProps)
       /\ \E n \in RTNames, in \in RTInputs : SerializeProp(n, in[1], in[2])
    \/ EndSerialize
    \/ ReadBack

SpecRT == Init /\ [][NextRT]_vars

(***************************************************************************)
(* A damaged property line: one record with one property is written, one   *)
(* byte of the property line is overwritten, and the record is read back.  *)
(***************************************************************************)
LineInputs ==
    { <<"PROPTYPE_CSTR", UsrStr(<<"s">>)>>,
      <<"PROPTYPE_INT", UsrNum(-42)>>,
      <<"PROPTYPE_SYSLOGTIME", UsrTime(Time1)>> }
DamageChars == {"x"}

\* index in wrote of the property line, and the bytes it occupies (the line
\* follows the record header)
ThePropLine == CHOOSE k \in 1..Len(wrote) : wrote[k].op = "prop"
LineBytes == (wrote[ThePropLine - 1].end + 1)..wrote[ThePropLine].end

NextLine ==
    \/ \E pObj \in Instances : wrote = <<>> /\ BeginSerialize(pObj)
    \/ /\ CanWriteProp(1)
       /\ \E n \in PropNames, in \in LineInputs : SerializeProp(n, in[1], in[2])
    \/ EndSerialize
    \/ /\ NumOf("prop") = 1
       /\ NumOf("damage") = 0
       /\ \E at \in LineBytes, c \in DamageChars : Damage(at, c)
    \/ ReadBack

SpecLine == Init /\ [][NextLine]_vars

(***************************************************************************)
(* A damaged record body: one record with at most one property is          *)
(* written, then one byte behind its header is overwritten or the stream   *)
(* is cut short behind the header, and the record is read back as an       *)
(* object or as a property bag.                                            *)
(***************************************************************************)
\* index in wrote of EndSerialize; the bytes behind the record header
TheEnd == CHOOSE k \in 1..Len(wrote) : wrote[k].op = "end"
BodyBytes == (wrote[1].end + 1)..Len(strm.buf)
Intact == NumOf("damage") = 0 /\ NumOf("truncate") = 0

NextTrail ==
    \/ \E pObj \in Instances : wrote = <<>> /\ BeginSerialize(pObj)
    \/ /\ CanWriteProp(1)
       /\ \E n \in PropNames, in \in OneInputs : SerializeProp(n, in[1], in[2])
    \/ EndSerialize
    \/ /\ NumOf("end") = 1
       /\ Intact
       /\ \E at \in BodyBytes, c \in DamageChars : Damage(at, c)
    \/ /\ NumOf("end") = 1
       /\ Intact
       /\ \E at \in BodyBytes : Truncate(at)
    \/ \E pObj \in Instances :
            /\ NumOf("end") = 1 /\ hist = <<>>
            /\ objDeserializeObjAsPropBag(pObj)
    \/ ReadBack

SpecTrail == Init /\ [][NextTrail]_vars

(***************************************************************************)
(* A failing stream: up to MaxRecords records of one object, one of them   *)
(* with a property, are written, and once, between two serializer calls,   *)
(* the stream's device starts to fail: a write-side call of a later        *)
(* serializer call returns an error.                                       *)
(***************************************************************************)
MaxFaultIn == 17         \* a header is 13 stream calls, a trailer is 5

\* the object whose records are written
TxnObj == [objID |-> 1]

NextTxn ==
    \/ NumOf("begin") < MaxRecords /\ BeginSerialize(TxnObj)
    \/ NumOf("begin") < MaxRecords /\ BeginSerializePropBag(TxnObj)
    \/ /\ CanWriteProp(1)
       /\ \E n \in PropNames, in \in OneInputs : SerializeProp(n, in[1], in[2])
    \/ EndSerialize
    \/ \E n \in 0..MaxFaultIn : NumOf("fault") = 0 /\ StreamFault(n)

SpecTxn == Init /\ [][NextTxn]_vars

(***************************************************************************)
(* Resynchronisation: up to MaxSyncGarbage bytes of damage, then one Obj   *)
(* record with at most one property, whose value may be a string holding   *)
(* header text or may have a type SerializeProp's switch does not know;    *)
(* the stream is then read as a property bag.                              *)
(***************************************************************************)
MaxSyncGarbage == 2
\* the text of a string value: a newline, then the start of a header line
FakeHeader == <<NL, COOKIE_OBJLINE, "O", "b", "j", ":", "1", ":", "1", ":", "1">>
SyncInputs ==
    { <<"PROPTYPE_PSZ", UsrStr(FakeHeader)>>,
      <<"PROPTYPE_INT", UsrNum(-42)>>,
      <<"PROPTYPE_NONE", UsrNum(7)>> }

NextSync ==
    \/ \E c \in GarbageChars :
            /\ NumOf("begin") = 0 /\ NumOf("garbage") < MaxSyncGarbage
            /\ Garbage(c)
    \/ \E pObj \in Instances : NumOf("begin") = 0 /\ BeginSerialize(pObj)
    \/ /\ CanWriteProp(1)
       /\ \E n \in PropNames, in \in SyncInputs : SerializeProp(n, in[1], in[2])
    \/ EndSerialize
    \/ \E pObj \in Instances :
            /\ NumOf("end") = 1 /\ hist = <<>>
            /\ objDeserializeObjAsPropBag(pObj)
    \/ HeaderStep
    \/ HeaderFailRecover
    \/ OidCheck
    \/ \E res \in CapResults : PropertyStep(res)
    \/ TrailerStep
    \/ Finalize

SpecSync == Init /\ [][NextSync]_vars

\* the integer codec: every integer of -MaxInt .. MaxInt in each integer width
IntPropTypes == {"PROPTYPE_SHORT", "PROPTYPE_INT", "PROPTYPE_LONG", "PROPTYPE_INT64"}

NextNum ==
    \/ \E pObj \in Instances : wrote = <<>> /\ BeginSerialize(pObj)
    \/ /\ CanWriteProp(1)
       /\ \E t \in IntPropTypes, n \in (-MaxInt)..MaxInt : SerializeProp(<<"n">>, t, UsrNum(n))
    \/ EndSerialize
    \/ ReadBack

SpecNum == Init /\ [][NextNum]_vars

\* the timestamp codec: every numeric subfield is 0 or MaxTimeField and the
\* offset sign is '+' or '-'; bit i of k selects the value of subfield i
TimeFieldNames == <<"timeType", "year", "month", "day", "hour", "minute", "second",
                    "secfrac", "secfracPrecision", "OffsetMode", "OffsetHour",
                    "OffsetMinute">>
TimeBits == Len(TimeFieldNames)
Bit(k, i) == (k \div (2 ^ i)) % 2
TimeField(k, i) == IF Bit(k, i) = 1 THEN MaxTimeField ELSE 0
SyslogTimeOf(k) ==
    [timeType |-> TimeField(k, 0), year |-> TimeField(k, 1), month |-> TimeField(k, 2),
     day |-> TimeField(k, 3), hour |-> TimeField(k, 4), minute |-> TimeField(k, 5),
     second |-> TimeField(k, 6), secfrac |-> TimeField(k, 7),
     secfracPrecision |-> TimeField(k, 8),
     OffsetMode |-> IF Bit(k, 9) = 1 THEN "-" ELSE "+",
     OffsetHour |-> TimeField(k, 10), OffsetMinute |-> TimeField(k, 11)]

NextTime ==
    \/ wrote = <<>> /\ BeginSerialize([objID |-> 1])
    \/ /\ CanWriteProp(1)
       /\ \E k \in 0..(2 ^ TimeBits - 1) :
            SerializeProp(<<"t">>, "PROPTYPE_SYSLOGTIME", UsrTime(SyslogTimeOf(k)))
    \/ EndSerialize
    \/ ReadBack

SpecTime == Init /\ [][NextTime]_vars

(***************************************************************************)
(* Descriptors: a class constructs its descriptor, sets handlers into      *)
(* slots of its method table and has the table's entries called.           *)
(***************************************************************************)
ClassArgs(id) == <<id, arrObjInfo[id].pszName, arrObjInfo[id].iObjVers,
                   "pConstruct", "pDestruct">>

NextInfo ==
    \/ \E id \in ClassIds :
            /\ Len(objInfos) < MaxInfos
            /\ InfoConstruct(ClassArgs(id)[1], ClassArgs(id)[2], ClassArgs(id)[3],
                             ClassArgs(id)[4], ClassArgs(id)[5])
    \/ \E pThis \in 1..MaxInfos, objMethod \in Slots, pHandler \in Handlers :
            InfoSetMethod(pThis, objMethod, pHandler)
    \/ \E pThis \in 1..MaxInfos, objMethod \in Slots, res \in CapResults :
            CallMethod(pThis, objMethod, res)

SpecInfo == Init /\ [][NextInfo]_vars

(***************************************************************************)
(* Registry and interface query: classes construct descriptors and         *)
(* register them under any id a caller can pass; callers query the         *)
(* interface with the current version and with its neighbours.             *)
(***************************************************************************)
RegIds == 0..(OBJ_NUM_IDS + 1)
IfVersions == (objCURR_IF_VERSION - 1)..(objCURR_IF_VERSION + 1)

NextReg ==
    \/ \E id \in ClassIds :
            /\ Len(objInfos) < MaxInfos + 1
            /\ InfoConstruct(ClassArgs(id)[1], ClassArgs(id)[2], ClassArgs(id)[3],
                             ClassArgs(id)[4], ClassArgs(id)[5])
    \/ \E oID \in RegIds, pInfo \in 1..(MaxInfos + 1) : RegisterObj(oID, pInfo)
    \/ \E v \in IfVersions : objQueryInterface(v)
    \/ \E v \in IfVersions : objGetObjInterface(v)

SpecReg == Init /\ [][NextReg]_vars

(***************************************************************************)
(* Properties: vocabulary.                                                 *)
(***************************************************************************)
\* what a property carries: its name, its type and the value in the field of
\* that type
PropValue(name, vType, pStr, num, t) ==
    [pcsName |-> name, varType |-> vType,
     pStr |-> IF vType = VARTYPE_STR THEN pStr ELSE <<>>,
     num |-> IF vType = VARTYPE_NUMBER THEN num ELSE 0,
     vSyslogTime |-> IF vType = VARTYPE_SYSLOGTIME THEN t ELSE NoTime]

\* the type a property of each propType_t is expected to arrive with
VarTypeOf(propType) ==
    CASE propType \in {"PROPTYPE_PSZ", "PROPTYPE_CSTR"} -> VARTYPE_STR
      [] propType \in IntPropTypes -> VARTYPE_NUMBER
      [] propType = "PROPTYPE_SYSLOGTIME" -> VARTYPE_SYSLOGTIME
      [] OTHER -> VARTYPE_NONE

\* the property a setter call received / the property a SerializeProp call gave
Received(var) == PropValue(var.pcsName, var.varType, var.pStr, var.num, var.vSyslogTime)
Given(w) == PropValue(w.pszPropName, VarTypeOf(w.propType), w.pUsr.pStr, w.pUsr.num,
                      w.pUsr.vSyslogTime)

SetterEvents(l) == SelectSeq(l, LAMBDA e : e.ev = "setProperty")
SetterValues(l) == [i \in 1..Len(SetterEvents(l)) |-> Received(SetterEvents(l)[i].var)]

\* the properties with a present value given to SerializeProp by the writer
\* operations from .. to, in order
RECURSIVE WrittenValues(_, _)
WrittenValues(from, to) ==
    IF from > to THEN <<>>
    ELSE (IF wrote[from].op = "prop" /\ ~wrote[from].pUsr.null
          THEN <<Given(wrote[from])>> ELSE <<>>) \o WrittenValues(from + 1, to)

AllCapsOK(l) == \A i \in 1..Len(l) : l[i].res = RS_RET_OK
IsPrefix(s, t) == Len(s) <= Len(t) /\ SubSeq(t, 1, Len(s)) = s
IsInfix(s, t) == \E k \in 0..(Len(t) - Len(s)) : SubSeq(t, k + 1, k + Len(s)) = s

\* the stream length before writer operation i
EndBefore(i) == IF i = 1 THEN 0 ELSE wrote[i - 1].end

\* the reader has just consumed a whole trailer
TrailerConsumed ==
    /\ strm.iUngetC = <<>>
    /\ strm.pos >= 7
    /\ SubSeq(strm.buf, strm.pos - 6, strm.pos)
         = <<COOKIE_ENDLINE, "E", "n", "d", NL, COOKIE_BLANKLINE, NL>>

PropBagOps == {"objDeserializeObjAsPropBag", "DeserializePropBag"}
\* the last call has returned (call, log and ppObj are those of that call)
Returned == pc = "idle" /\ hist # <<>>

(***************************************************************************)
(* C1 (SpecRT).                                                            *)
(***************************************************************************)
\* C1: round trip.  Once the Deserialize call that reads back a record
\* written by BeginSerialize, SerializeProp.., EndSerialize has ended, and no
\* capability reported a failure, the call has returned success, stored the
\* instance, and the setter received exactly the properties that were
\* written with a present value (name, type, value), in the order written.
C1_RoundTrip ==
    ((pc = "aborted" \/ hist # <<>>) /\ AllCapsOK(log)) =>
        /\ pc = "idle"
        /\ call.iRet = RS_RET_OK
        /\ ppObj = "pObj"
        /\ SetterValues(log) = WrittenValues(1, Len(wrote))

(***************************************************************************)
(* C2, C3, C4, C6 (Spec); C5, C7 (SpecOne).                                *)
(***************************************************************************)
Rec1End == CHOOSE i \in 1..Len(wrote) :
                wrote[i].op = "end" /\ \A j \in 1..(i - 1) : wrote[j].op # "end"
Rec2Begin == CHOOSE i \in 2..Len(wrote) : wrote[i].op = "begin"

\* the stream is an Obj record, one or more damage bytes, an Obj record of
\* the same class, and nothing else
RecordGarbageRecord ==
    /\ NumOf("begin") = 2 /\ NumOf("end") = 2 /\ NumOf("garbage") >= 1
    /\ wrote[1].op = "begin" /\ wrote[Len(wrote)].op = "end"
    /\ \A i \in 1..Len(wrote) :
          /\ wrote[i].op = "begin" => wrote[i].recType = OBJ /\ wrote[i].objID = wrote[1].objID
          /\ wrote[i].op = "garbage" <=> (Rec1End < i /\ i < Rec2Begin)

\* C2: recovery end to end.  On a stream made of an Obj record, damage bytes
\* and a second Obj record, once two Deserialize calls expecting the records'
\* class have ended with no capability failing, the first returned the first
\* record and the second returned success with the properties of the second.
C2_RecoveryEndToEnd ==
    ( /\ RecordGarbageRecord
      /\ hist # <<>> /\ hist[1].op = "Deserialize" /\ hist[1].objID = wrote[1].objID
      /\ AllCapsOK(hist[1].log)
      /\ (pc = "aborted" \/ Len(hist) = 2) /\ AllCapsOK(log) ) =>
        /\ hist[1].iRet = RS_RET_OK /\ hist[1].ppObj = "pObj"
        /\ SetterValues(hist[1].log) = WrittenValues(1, Rec1End)
        /\ Len(hist) = 2 /\ pc = "idle"
        /\ hist[2].iRet = RS_RET_OK /\ hist[2].ppObj = "pObj"
        /\ SetterValues(hist[2].log) = WrittenValues(Rec2Begin, Len(wrote))

\* C3: in each of the three deserialize operations, the step taken after a
\* header failure is the recovery scan: the process is not aborted; the call
\* either goes back to header parsing with '<' pushed back and a newline
\* consumed just before it, or ends with the scan's end-of-stream failure.
C3_HeaderFailureRecovers ==
    [][pc = "hdrfail" =>
        /\ pc' \in {"hdr", "fin"}
        /\ pc' = "hdr" => /\ strm'.iUngetC = <<COOKIE_OBJLINE>>
                          /\ strm'.pos >= 2
                          /\ strm'.buf[strm'.pos] = COOKIE_OBJLINE
                          /\ strm'.buf[strm'.pos - 1] = NL
        /\ pc' = "fin" => call'.iRet = RS_RET_EOF /\ Unread(strm') = <<>>]_vars

HasBoundary(buf) ==
    \E i \in 1..(Len(buf) - 1) : buf[i] = NL /\ buf[i + 1] = COOKIE_OBJLINE
ParsableHeaderAtStart(op) ==
    objDeserializeHeader(HeaderRecType(op), [NewStrm EXCEPT !.buf = strm.buf]).iRet
        = RS_RET_OK
FirstOp == IF hist # <<>> THEN hist[1].op ELSE call.op

\* C4: exhaustion.  On a stream in which no newline is immediately followed
\* by '<' and which does not begin with a header the operation can parse, the
\* first deserialize call does not abort and returns RS_RET_EOF, having
\* invoked no capability and stored no instance.
C4_Exhaustion ==
    (FirstOp # "" /\ ~HasBoundary(strm.buf) /\ ~ParsableHeaderAtStart(FirstOp)) =>
        /\ hist = <<>> => pc # "aborted"
        /\ hist # <<>> => /\ hist[1].iRet = RS_RET_EOF
                          /\ hist[1].log = <<>>
                          /\ hist[1].ppObj = "unset"

\* C5: class-id mismatch.  Once Deserialize has parsed a header whose class
\* id (in range) differs from the expected one, the call ends with
\* RS_RET_INVALID_OID: no constructor and no setter is invoked and the
\* caller's output pointer is not written.
C5_ClassIdMismatch ==
    ( /\ call.op = "Deserialize"
      /\ pc \notin {"hdr", "hdrfail", "oid", "aborted"}
      /\ call.oID # call.objID ) =>
        /\ call.oID \in ClassIds
        /\ pc \in {"fin", "idle"}
        /\ call.iRet = RS_RET_INVALID_OID
        /\ log = <<>>
        /\ ppObj = "unset"

C5_Witness ==
    /\ Returned /\ call.op = "Deserialize"
    /\ call.oID \in ClassIds /\ call.oID # call.objID
    /\ call.iRet = RS_RET_INVALID_OID

\* C6: destructor on failure.  When Deserialize has returned a failure after
\* its constructor call succeeded, the destructor capability of the class was
\* invoked exactly once.
C6_DestructorOnFailure ==
    (Returned /\ call.op = "Deserialize" /\ call.iRet # RS_RET_OK /\ call.pObj) =>
        Cardinality({i \in 1..Len(log) : log[i].ev = "objMethod_DESTRUCT"}) = 1

\* Deserialize has written the caller's output pointer only if the header
\* parsed with the expected class, the constructor, every setter, the fixup
\* (when given) and the finalizer (when the class has one) succeeded and the
\* trailer was consumed
OutputOnlyOnSuccess ==
    ppObj = "pObj" =>
        /\ call.op = "Deserialize" /\ pc \in {"fin", "idle"}
        /\ call.iRet = RS_RET_OK
        /\ call.iRetLocal = RS_RET_OK /\ call.oID = call.objID
        /\ AllCapsOK(log)
        /\ log # <<>> /\ log[1].ev = "construct"
        /\ call.fFixup => \E i \in 1..Len(log) : log[i].ev = "fFixup"
        /\ arrObjInfo[call.oID].hasFinalizer =>
                \E i \in 1..Len(log) : log[i].ev = "constructionFinalizer"
        /\ TrailerConsumed

PropBagCallFailed == Returned /\ call.op \in PropBagOps /\ call.iRet # RS_RET_OK

\* C7 as claimed: no partial result.  Deserialize writes the output pointer
\* only after every stage succeeded, and a property-bag call that returned a
\* failure has applied no setter.
C7_AsClaimed ==
    /\ OutputOnlyOnSuccess
    /\ PropBagCallFailed =>
          \A i \in 1..Len(log) : ~(log[i].ev = "setProperty" /\ log[i].res = RS_RET_OK)

\* C7, amended: Deserialize writes the output pointer only after every stage
\* succeeded.  A property-bag call that returned a failure has applied no
\* setter if it failed in the header stage (end of stream, class id); if it
\* failed later, the setters it invoked are those of consecutive property
\* lines the writer wrote, all but possibly the last of them succeeded, and
\* none is undone.
C7_NoPartialResult ==
    /\ OutputOnlyOnSuccess
    /\ PropBagCallFailed =>
          /\ (call.iRetLocal # RS_RET_OK \/ call.oID # call.objID) => log = <<>>
          /\ \A i \in 1..Len(log) :
                log[i].ev = "setProperty" /\ (i < Len(log) => log[i].res = RS_RET_OK)
          /\ IsInfix(SetterValues(log), WrittenValues(1, Len(wrote)))

C7_Witness ==
    /\ PropBagCallFailed
    /\ call.iRet = RS_RET_INVALID_TRAILER
    /\ Len(log) = 1 /\ log[1].ev = "setProperty" /\ log[1].res = RS_RET_OK

(***************************************************************************)
(* C8 (SpecRT), C9 (SpecNum), C10 (SpecTime).                              *)
(***************************************************************************)
\* C8: omission.  Every SerializeProp call given an absent value returned
\* success and left the stream as long as it was; the setter calls of the
\* call that reads the record back are for properties written with a present
\* value only, and a successful call made exactly one per such property.
C8_Omission ==
    /\ \A i \in 1..Len(wrote) :
          (wrote[i].op = "prop" /\ wrote[i].pUsr.null) =>
              wrote[i].iRet = RS_RET_OK /\ wrote[i].end = EndBefore(i)
    /\ IsPrefix(SetterValues(log), WrittenValues(1, Len(wrote)))
    /\ (Returned /\ call.iRet = RS_RET_OK) =>
          SetterValues(log) = WrittenValues(1, Len(wrote))

C8_Witness ==
    /\ Returned /\ call.iRet = RS_RET_OK
    /\ \E i, j \in 1..Len(wrote) :
          /\ wrote[i].op = "prop" /\ wrote[i].pUsr.null
          /\ wrote[j].op = "prop" /\ ~wrote[j].pUsr.null
          /\ wrote[i].pszPropName = wrote[j].pszPropName /\ i < j
    /\ Len(SetterEvents(log)) = 1

\* the writer operation that wrote the one property of SpecNum and SpecTime
TheProp == CHOOSE k \in 1..Len(wrote) : wrote[k].op = "prop"
\* setter call i is the last step the reader took
JustParsed(i) == i = Len(log) /\ (pc = "props" \/ log[i].res # RS_RET_OK)
LineConsumed(k) ==
    strm.pos = wrote[k].end /\ strm.iUngetC = <<>> /\ strm.buf[strm.pos] = NL

\* C9: integer codec.  The line SerializeProp writes for an integer n of any
\* width is parsed without a parse error into a number property of the same
\* name whose value is n, and the parse consumes the line through its newline.
C9_IntegerCodec ==
    /\ call.iRet \in {RS_RET_OK, RS_RET_ERR, RS_RET_NO_PROPLINE}
    /\ (NumOf("prop") = 1 /\ pc \in {"trailer", "fixup", "final"}) =>
            Len(SetterEvents(log)) = 1
    /\ \A i \in 1..Len(log) :
          log[i].ev = "setProperty" =>
              /\ log[i].var.pcsName = wrote[TheProp].pszPropName
              /\ log[i].var.varType = VARTYPE_NUMBER
              /\ log[i].var.num = wrote[TheProp].pUsr.num
              /\ JustParsed(i) => LineConsumed(TheProp)

C9_Witness ==
    /\ pc = "props" /\ Len(log) = 2 /\ log[2].ev = "setProperty"
    /\ wrote[TheProp].pUsr.num = -MaxInt /\ wrote[TheProp].propType = "PROPTYPE_SHORT"
    /\ log[2].var.num = -MaxInt
    /\ LineConsumed(TheProp)

\* C10: timestamp fidelity.  The 12-field text SerializeProp writes for a
\* timestamp is parsed without a parse error into a timestamp property equal
\* to the original in each of its 12 subfields.
C10_TimestampFidelity ==
    /\ call.iRet \in {RS_RET_OK, RS_RET_ERR, RS_RET_NO_PROPLINE}
    /\ (NumOf("prop") = 1 /\ pc \in {"trailer", "fixup", "final"}) =>
            Len(SetterEvents(log)) = 1
    /\ \A i \in 1..Len(log) :
          log[i].ev = "setProperty" =>
              /\ log[i].var.varType = VARTYPE_SYSLOGTIME
              /\ \A f \in 1..Len(TimeFieldNames) :
                    log[i].var.vSyslogTime[TimeFieldNames[f]]
                        = wrote[TheProp].pUsr.vSyslogTime[TimeFieldNames[f]]
              /\ JustParsed(i) => LineConsumed(TheProp)

C10_Witness ==
    /\ pc = "props" /\ Len(log) = 2 /\ log[2].ev = "setProperty"
    /\ log[2].var.vSyslogTime.month = MaxTimeField /\ log[2].var.vSyslogTime.day = 0
    /\ log[2].var.vSyslogTime.OffsetMode = "-"
    /\ log[2].var.vSyslogTime.OffsetMinute = MaxTimeField
    /\ wrote[TheProp].pUsr.vSyslogTime = log[2].var.vSyslogTime

(***************************************************************************)
(* C11: after InfoConstruct and any sequence of InfoSetMethod calls, every  *)
(* slot with index 2 or more that was never given to InfoSetMethod holds   *)
(* the shared sentinel, calling it returns RS_RET_NOT_IMPLEMENTED, and     *)
(* objInfoIsImplemented is true of a slot exactly when the slot's handler  *)
(* is not the sentinel.                                                    *)
(***************************************************************************)
NeverSet(d, m) == m >= 2 /\ <<d, m>> \notin setLog

C11_SentinelSlots ==
    /\ \A d \in 1..Len(objInfos), m \in Slots :
          /\ NeverSet(d, m) =>
                /\ objInfos[d].objMethods[m] = objInfoNotImplementedDummy
                /\ ~IsImplemented(objInfos[d], m)
          /\ IsImplemented(objInfos[d], m) <=>
                objInfos[d].objMethods[m] # objInfoNotImplementedDummy
    /\ (ret.fn = "CallMethod" /\ NeverSet(ret.pThis, ret.objMethod)) =>
          ret.iRet = RS_RET_NOT_IMPLEMENTED

\* a never-set optional slot was called after another slot had been set
C11_Witness ==
    /\ ret.fn = "CallMethod"
    /\ NeverSet(ret.pThis, ret.objMethod)
    /\ ret.iRet = RS_RET_NOT_IMPLEMENTED
    /\ \E m \in Slots : m >= 2 /\ <<ret.pThis, m>> \in setLog
                        /\ IsImplemented(objInfos[ret.pThis], m)

(***************************************************************************)
(* C16: InfoSetMethod with a slot index in [1, OBJ_NUM_METHODS), the       *)
(* destructor slot 1 included, returns RS_RET_OK, replaces exactly that    *)
(* slot's handler and leaves every other slot and the descriptor's name,   *)
(* class id and version unchanged; slot 0 is excluded by the function's    *)
(* assertion, which aborts the call with nothing changed.                  *)
(***************************************************************************)
\* the last call was InfoSetMethod, it returned RS_RET_OK and the descriptors
\* differ from those before the call in the given slot only
SetExactlyThatSlot ==
    /\ ret.iRet = RS_RET_OK
    /\ pc # "aborted"
    /\ Len(objInfos) = Len(ret.preInfos)
    /\ \A d \in 1..Len(objInfos) :
          /\ objInfos[d].pszName = ret.preInfos[d].pszName
          /\ objInfos[d].objID = ret.preInfos[d].objID
          /\ objInfos[d].iObjVers = ret.preInfos[d].iObjVers
          /\ \A m \in Slots :
                objInfos[d].objMethods[m] =
                    IF d = ret.pThis /\ m = ret.objMethod THEN ret.pHandler
                    ELSE ret.preInfos[d].objMethods[m]

\* the claim as stated: every slot of [0, OBJ_NUM_METHODS), slot 0 included
C16_AsClaimed ==
    (ret.fn = "InfoSetMethod" /\ ret.objMethod \in Slots) => SetExactlyThatSlot

C16_SetMethodFrame ==
    /\ (ret.fn = "InfoSetMethod" /\ ret.objMethod \in Slots \ {0}) => SetExactlyThatSlot
    /\ (ret.fn = "InfoSetMethod" /\ ret.objMethod = 0 /\ ~NDEBUG) =>
            /\ ret.iRet = SIGABRT
            /\ pc = "aborted"
            /\ objInfos = ret.preInfos

\* the destructor slot was replaced
C16_Witness ==
    /\ ret.fn = "InfoSetMethod"
    /\ ret.objMethod = 1
    /\ ret.iRet = RS_RET_OK
    /\ ret.preInfos[ret.pThis].objMethods[1] = "pDestruct"
    /\ objInfos[ret.pThis].objMethods[1] = ret.pHandler
    /\ ret.pHandler # "pDestruct"

(***************************************************************************)
(* C12: RegisterObj with a class id outside [1, OBJ_NUM_IDS), the id       *)
(* OBJ_NUM_IDS itself included, returns RS_RET_INVALID_OID and reads or    *)
(* writes no registry entry; with an id inside the range whose entry is    *)
(* empty it stores the descriptor there and changes no other entry.        *)
(***************************************************************************)
C12_RegisterRange ==
    ret.fn = "RegisterObj" =>
        /\ (ret.oID < 1 \/ ret.oID >= OBJ_NUM_IDS) =>
                /\ ret.iRet = RS_RET_INVALID_OID
                /\ registry = ret.preReg
                /\ ret.accessed = {}
        /\ (ret.oID \in 1..(OBJ_NUM_IDS - 1) /\ ret.preReg.arr[ret.oID] = 0) =>
                /\ ret.iRet = RS_RET_OK
                /\ registry = [ret.preReg EXCEPT !.arr[ret.oID] = ret.pThis]

(***************************************************************************)
(* C13: registry write-once: over any sequence of RegisterObj calls an     *)
(* occupied entry never changes again; a second RegisterObj for the same   *)
(* class id is rejected and the entry still refers to the first            *)
(* descriptor.                                                             *)
(***************************************************************************)
C13_WriteOnce ==
    ret.fn = "RegisterObj" =>
        /\ \A i \in DOMAIN ret.preReg.arr :
              ret.preReg.arr[i] # 0 => registry.arr[i] = ret.preReg.arr[i]
        /\ (ret.oID \in DOMAIN ret.preReg.arr /\ ret.preReg.arr[ret.oID] # 0) =>
              ret.iRet # RS_RET_OK

(***************************************************************************)
(* C14: when the requested version differs from the current one, both      *)
(* objQueryInterface and objGetObjInterface return                         *)
(* RS_RET_INTERFACE_NOT_SUPPORTED and leave every operation pointer unset; *)
(* when it matches they return RS_RET_OK with the class-id tag and all     *)
(* twelve operation pointers set.                                          *)
(***************************************************************************)
C14_InterfaceQuery ==
    ret.fn \in {"objQueryInterface", "objGetObjInterface"} =>
        IF ret.ifVersion # objCURR_IF_VERSION
        THEN /\ ret.iRet = RS_RET_INTERFACE_NOT_SUPPORTED
             /\ pIf.ops = {}
        ELSE /\ ret.iRet = RS_RET_OK
             /\ pIf.oID = OBJobj
             /\ pIf.ops = IfOps
             /\ Cardinality(pIf.ops) = 12

(***************************************************************************)
(* C15: DeserializePropBag accepts a header only when its kind tag is      *)
(* "OPB" and objDeserializeObjAsPropBag only when it is "Obj"; a record of *)
(* the other kind is a header failure that the recovery scan skips, and    *)
(* neither operation ever invokes a constructor, a fixup or a              *)
(* construction finalizer.                                                 *)
(***************************************************************************)
\* kind tag of the one record SpecOne writes
TheRecType == wrote[CHOOSE k \in 1..Len(wrote) : wrote[k].op = "begin"].recType
HeaderAccepted == pc = "oid" /\ call.iRetLocal = RS_RET_OK
OnlySetterCalls == \A i \in 1..Len(log) : log[i].ev = "setProperty"

\* the claim as stated: "OPB" is the kind tag both operations accept
C15_AsClaimed ==
    call.op \in PropBagOps =>
        /\ HeaderAccepted => (NumOf("begin") = 1 /\ TheRecType = OPB)
        /\ OnlySetterCalls

C15_KindTags ==
    call.op \in PropBagOps =>
        /\ HeaderAccepted =>
              /\ NumOf("begin") = 1
              /\ call.op = "DeserializePropBag" => TheRecType = OPB
              /\ call.op = "objDeserializeObjAsPropBag" => TheRecType = OBJ
        /\ (/\ NumOf("begin") = 1
            /\ TheRecType = (IF call.op = "DeserializePropBag" THEN OBJ ELSE OPB)) =>
              /\ pc \notin {"oid", "props", "trailer"}
              /\ pc = "hdrfail" => call.iRetLocal # RS_RET_OK
              /\ Returned => (call.iRet = RS_RET_EOF /\ log = <<>>)
        /\ OnlySetterCalls

\* an "Obj" record was accepted by objDeserializeObjAsPropBag and its
\* property handed to the setter
C15_Witness ==
    /\ NumOf("begin") = 1
    /\ NumOf("end") = 1
    /\ TheRecType = OBJ
    /\ Returned
    /\ call.op = "objDeserializeObjAsPropBag"
    /\ call.iRet = RS_RET_OK
    /\ Len(log) = 1

(***************************************************************************)
(* C17: for a line that starts with '+', a malformed interior field makes  *)
(* objDeserializeProperty fail with the failure of the field parser that   *)
(* met it: RS_RET_INVALID_NUMBER when a type tag, a length, a number value *)
(* or a timestamp subfield does not start with a digit,                    *)
(* RS_RET_INVALID_DELIMITER when a number or a string value is not         *)
(* followed by ':'; a missing trailing newline gives                       *)
(* RS_RET_INVALID_PROPFRAME.                                               *)
(***************************************************************************)
\* the layout of the line SerializeProp wrote, as offsets from its first byte
LineName == wrote[ThePropLine].pszPropName
LineEnc == SerializePropEncode(wrote[ThePropLine].propType, wrote[ThePropLine].pUsr)
TypeTagAt == 3 + Len(LineName)
LenFirstAt == 5 + Len(LineName)
Colon2At == 4 + Len(LineName)
Colon3At == 5 + Len(LineName) + Len(FmtD(LineEnc.lenBuf))
ValueFirstAt == Colon3At + 1
Colon4At == Colon3At + LineEnc.lenBuf + 1
NewlineAt == Colon4At + 1

\* offset of the damaged byte in the line
DamagedAt ==
    wrote[CHOOSE k \in 1..Len(wrote) : wrote[k].op = "damage"].at
        - wrote[ThePropLine - 1].end

NotADigitFields ==
    {TypeTagAt, LenFirstAt}
    \cup (IF LineEnc.vType \in {VARTYPE_NUMBER, VARTYPE_SYSLOGTIME}
          THEN {ValueFirstAt} ELSE {})
WrongDelimiterFields == {Colon2At, Colon3At, Colon4At}
InteriorFields == NotADigitFields \cup WrongDelimiterFields

\* the call is over (or about to return) after the constructor succeeded
LineRead ==
    /\ NumOf("damage") = 1
    /\ pc = "fin" \/ Returned
    /\ log # <<>>
    /\ log[1].ev = "construct"
    /\ log[1].res = RS_RET_OK

\* the claim as stated: every one of these malformations is an invalid
\* property frame
C17_AsClaimed ==
    (LineRead /\ DamagedAt \in InteriorFields \cup {NewlineAt}) =>
        call.iRet = RS_RET_INVALID_PROPFRAME

C17_PropertyLineErrors ==
    LineRead =>
        /\ DamagedAt \in NotADigitFields => call.iRet = RS_RET_INVALID_NUMBER
        /\ DamagedAt \in WrongDelimiterFields => call.iRet = RS_RET_INVALID_DELIMITER
        /\ DamagedAt = NewlineAt => call.iRet = RS_RET_INVALID_PROPFRAME
        /\ DamagedAt \in InteriorFields \cup {NewlineAt} => SetterEvents(log) = <<>>

\* a string value not followed by ':' was read and reported
C17_Witness ==
    /\ LineRead
    /\ Returned
    /\ LineEnc.vType = VARTYPE_STR
    /\ DamagedAt = Colon4At
    /\ call.iRet = RS_RET_INVALID_DELIMITER

(***************************************************************************)
(* C18: when the first character of a would-be property line is not '+',   *)
(* objDeserializeProperty pushes it back and reports RS_RET_NO_PROPLINE,   *)
(* so the next read returns that character; objDeserializeProperties       *)
(* takes this as the end of the properties and validates the trailer from  *)
(* that character on: it succeeds exactly when the characters that follow  *)
(* are '>', 'E', 'n', 'd', newline, '.', newline; a wrong character gives  *)
(* RS_RET_INVALID_TRAILER, the end of the stream inside the trailer gives  *)
(* RS_RET_EOF.                                                             *)
(***************************************************************************)
TrailerText == <<COOKIE_ENDLINE, "E", "n", "d", NL, COOKIE_BLANKLINE, NL>>

\* how many leading characters of s are those of the trailer
Matching(s) ==
    CHOOSE k \in 0..Len(TrailerText) :
        /\ k <= Len(s)
        /\ SubSeq(s, 1, k) = SubSeq(TrailerText, 1, k)
        /\ (k < Len(TrailerText) /\ k < Len(s)) => s[k + 1] # TrailerText[k + 1]

\* the property loop has just ended: the character it met is pushed back
PushedBack ==
    /\ call.iRet = RS_RET_NO_PROPLINE
    /\ strm.pos >= 1
    /\ strm.iUngetC = <<strm.buf[strm.pos]>>
    /\ strm.buf[strm.pos] # COOKIE_PROPLINE
    /\ strmReadChar(strm).iRet = RS_RET_OK
    /\ strmReadChar(strm).c = strm.buf[strm.pos]

\* the claim as stated: every failure of the trailer is RS_RET_INVALID_TRAILER
C18_AsClaimed ==
    [][pc = "trailer" =>
        /\ PushedBack
        /\ call'.iRet = RS_RET_OK <=> IsPrefix(TrailerText, Unread(strm))
        /\ call'.iRet # RS_RET_OK => call'.iRet = RS_RET_INVALID_TRAILER]_vars

C18_LoopTermination ==
    [][pc = "trailer" =>
        /\ PushedBack
        /\ call'.iRet = RS_RET_OK <=> IsPrefix(TrailerText, Unread(strm))
        /\ call'.iRet = RS_RET_OK =>
              Unread(strm') = SubSeq(Unread(strm), Len(TrailerText) + 1, Len(Unread(strm)))
        /\ call'.iRet # RS_RET_OK =>
              call'.iRet = IF Matching(Unread(strm)) < Len(Unread(strm))
                           THEN RS_RET_INVALID_TRAILER ELSE RS_RET_EOF]_vars

\* after one property line the loop met the '>' of an intact trailer, pushed
\* it back, and the trailer was then read to its end
C18_Witness ==
    /\ Intact
    /\ pc = "fixup"
    /\ call.iRet = RS_RET_OK
    /\ Len(SetterEvents(log)) = 1
    /\ TrailerConsumed
    /\ strm.pos = wrote[TheEnd].end

(***************************************************************************)
(* C19: recovery happens at record boundaries only: once a header has been *)
(* parsed, a failure inside a property line, in the setter, in the type    *)
(* dispatch or in the trailer is returned to the caller with its own       *)
(* failure kind, without the recovery scan, without a retry of the record  *)
(* and without reading any further character.                              *)
(***************************************************************************)
HeaderParsed == pc \in {"oid", "ctor", "props", "trailer", "fixup", "final", "fin"}
RecordFailure(iRet) == iRet \notin {RS_RET_OK, RS_RET_NO_PROPLINE, SIGABRT}

C19_NoRecoveryInsideRecord ==
    [][/\ HeaderParsed => pc' \notin {"hdr", "hdrfail"}
       /\ (pc = "props" /\ RecordFailure(call'.iRet)) =>
            /\ pc' = "fin"
            /\ strm' = objDeserializeProperty(pVar, strm).st
            /\ IF objDeserializeProperty(pVar, strm).iRet = RS_RET_OK
               THEN /\ log' # log
                    /\ call'.iRet = log'[Len(log')].res
               ELSE /\ log' = log
                    /\ call'.iRet = objDeserializeProperty(pVar, strm).iRet
       /\ (pc = "trailer" /\ RecordFailure(call'.iRet)) =>
            /\ pc' = "fin"
            /\ strm' = objDeserializeTrailer(strm).st
            /\ call'.iRet = objDeserializeTrailer(strm).iRet
       /\ (pc = "fin" /\ RecordFailure(call.iRet)) =>
            /\ pc' = "idle"
            /\ strm' = strm
            /\ hist'[Len(hist')].iRet = call.iRet
            /\ SetterEvents(log') = SetterEvents(log)]_vars

\* a property bag call returned the trailer's failure after its one property
\* was set, with the rest of the stream left unread
C19_Witness ==
    /\ Returned
    /\ call.op = "objDeserializeObjAsPropBag"
    /\ call.iRet = RS_RET_INVALID_TRAILER
    /\ hist[1].iRet = RS_RET_INVALID_TRAILER
    /\ Len(SetterEvents(log)) = 1
    /\ strm.pos < Len(strm.buf)

(***************************************************************************)
(* C20: the order of steps of a successful Deserialize: the constructor    *)
(* is called exactly once and only after a header with the expected class  *)
(* id was parsed; then the setter once for each property line, in wire     *)
(* order; then the trailer is validated; then the fixup, if one was given, *)
(* exactly once; only after it succeeded the construction finalizer,       *)
(* exactly once if the class implements it and not at all otherwise; only  *)
(* after that the instance is handed to the caller.                        *)
(***************************************************************************)
EventsOf(ev) == {i \in 1..Len(log) : log[i].ev = ev}
\* every capability call before the i-th is one of evs and succeeded
Before(i, evs) == \A j \in 1..(i - 1) : log[j].ev \in evs /\ log[j].res = RS_RET_OK
HasFinalizer == objInfoIsImplemented(call.oID, "objMethod_CONSTRUCTION_FINALIZER")

C20_StepOrder ==
    call.op = "Deserialize" =>
        /\ log # <<>> =>
              /\ log[1].ev = "construct"
              /\ call.iRetLocal = RS_RET_OK
              /\ call.oID = call.objID
        /\ \A i \in 1..Len(log) :
              /\ log[i].ev = "construct" => i = 1
              /\ log[i].ev = "setProperty" => Before(i, {"construct", "setProperty"})
              /\ log[i].ev = "fFixup" =>
                    /\ call.fFixup
                    /\ TrailerConsumed
                    /\ Before(i, {"construct", "setProperty"})
              /\ log[i].ev = "constructionFinalizer" =>
                    /\ HasFinalizer
                    /\ TrailerConsumed
                    /\ Before(i, {"construct", "setProperty", "fFixup"})
                    /\ call.fFixup => \E j \in 1..(i - 1) : log[j].ev = "fFixup"
        /\ ppObj = "pObj" =>
              /\ pc \in {"fin", "idle"}
              /\ call.iRet = RS_RET_OK
              /\ TrailerConsumed
              /\ AllCapsOK(log)
              /\ Cardinality(EventsOf("construct")) = 1
              /\ SetterValues(log) = WrittenValues(1, Len(wrote))
              /\ Cardinality(EventsOf("fFixup")) = (IF call.fFixup THEN 1 ELSE 0)
              /\ Cardinality(EventsOf("constructionFinalizer")) =
                    (IF HasFinalizer THEN 1 ELSE 0)
              /\ Len(log) = 1 + Len(SetterEvents(log))
                              + Cardinality(EventsOf("fFixup"))
                              + Cardinality(EventsOf("constructionFinalizer"))

\* a record with two properties was read with a fixup by a class that has a
\* construction finalizer, and the instance was handed out
C20_Witness ==
    /\ Returned
    /\ call.op = "Deserialize"
    /\ call.iRet = RS_RET_OK
    /\ ppObj = "pObj"
    /\ call.fFixup
    /\ HasFinalizer
    /\ Len(SetterEvents(log)) = 2
    /\ log[Len(log)].ev = "constructionFinalizer"
    /\ log[Len(log) - 1].ev = "fFixup"

(***************************************************************************)
(* C21  Termination: on every finite stream, every deserialize operation   *)
(* that was entered eventually returns to its caller (with success, with a *)
(* specific failure or with end of stream).                                *)
(***************************************************************************)
C21_Termination == (pc # "idle") ~> (pc = "idle")

(***************************************************************************)
(* C22  Serializer transaction framing: BeginSerialize and                 *)
(* BeginSerializePropBag open the stream's transactional record before the *)
(* first header byte is written; EndSerialize commits the record only      *)
(* after the complete trailer has been written; a stream call that fails   *)
(* in header or trailer makes the operation return that failure, and the   *)
(* record is not committed.                                                *)
(***************************************************************************)
\* the bytes serializer call number i put on the stream
BytesOf(i) == SubSeq(strm.buf, EndBefore(i) + 1, wrote[i].end)
\* the header line of the record begun by call number i
HeaderText(i) ==
    objSerializeHeader(NewStrm, [objID |-> wrote[i].objID], wrote[i].recType).buf
Calls(op) == {i \in 1..Len(wrote) : wrote[i].op = op}
Range(q) == {q[k] : k \in 1..Len(q)}

C22_TransactionFraming ==
    /\ \A i \in Calls("begin") :
          /\ BytesOf(i) # <<>> => EndBefore(i) \in Range(strm.begins)
          /\ IF wrote[i].iRet = RS_RET_OK
             THEN BytesOf(i) = HeaderText(i)
             ELSE /\ wrote[i].iRet = RS_RET_IO_ERROR
                  /\ IsPrefix(BytesOf(i), HeaderText(i))
                  /\ BytesOf(i) # HeaderText(i)
    /\ \A i \in Calls("end") :
          IF wrote[i].iRet = RS_RET_OK
          THEN BytesOf(i) = TrailerText /\ wrote[i].end \in Range(strm.commits)
          ELSE /\ wrote[i].iRet = RS_RET_IO_ERROR
               /\ IsPrefix(BytesOf(i), TrailerText)
               /\ wrote[i].end \notin Range(strm.commits)
    /\ \A k \in Range(strm.commits) :
          \E i \in Calls("end") :
              wrote[i].end = k /\ wrote[i].iRet = RS_RET_OK /\ BytesOf(i) = TrailerText
    /\ Len(strm.commits) = Cardinality({i \in Calls("end") : wrote[i].iRet = RS_RET_OK})

\* a first record was written and committed; the stream then failed inside
\* the trailer of the second, which is left partly written and uncommitted
C22_Witness ==
    /\ Len(strm.commits) = 1
    /\ Len(strm.begins) = 2
    /\ \E i \in Calls("end") :
          /\ wrote[i].iRet = RS_RET_IO_ERROR
          /\ BytesOf(i) # <<>>
          /\ BytesOf(i) # TrailerText

(***************************************************************************)
(* C23  Single-slot pushback discipline: the deserializer never calls      *)
(* strmUnreadChar twice without a strmReadChar in between, and every       *)
(* character it pushes back is the character the immediately preceding     *)
(* strmReadChar returned: the '<' found by the recovery scan, or the       *)
(* character other than '+' that ends the property loop.                   *)
(***************************************************************************)
Unreads == {k \in 1..Len(strm.calls) : strm.calls[k][1] = "strmUnreadChar"}

C23_PushbackDiscipline ==
    /\ \A k \in Unreads :
          /\ k > 1
          /\ strm.calls[k - 1] = <<"strmReadChar", strm.calls[k][2]>>
          /\ strm.calls[k][2] # COOKIE_PROPLINE
          /\ strm.calls[k][2] # ""
    /\ pc \in {"hdrfail", "oid", "ctor", "props", "fixup", "final", "fin", "idle"} =>
          strm.iUngetC = <<>>

\* the recovery scan of a property bag reader has found a newline followed
\* by '<' and has pushed the '<' back; the header is about to be retried
C23_Witness ==
    /\ pc = "hdr"
    /\ call.iRetLocal # RS_RET_OK
    /\ Unreads # {}
    /\ strm.calls[Len(strm.calls)] = <<"strmUnreadChar", COOKIE_OBJLINE>>
    /\ strm.iUngetC = <<COOKIE_OBJLINE>>

(***************************************************************************)
(* C24  Resynchronisation lands on true record starts only: in a stream    *)
(* of records written by the serializer with damage before them, every     *)
(* position at which the recovery scan stops and from which a header then  *)
(* parses is the first character of a header line written by               *)
(* BeginSerialize or BeginSerializePropBag, never a position inside a      *)
(* property value.                                                         *)
(***************************************************************************)
\* the recovery scan has just stopped: the '<' it pushed back is byte number
\* strm.pos, and the header is about to be read from it
Resynced == pc = "hdr" /\ strm.iUngetC = <<COOKIE_OBJLINE>>
\* the first bytes of the header lines the serializer wrote
HeaderStarts == {EndBefore(i) + 1 : i \in Calls("begin")}
\* the bytes of the string values the serializer wrote
StringValueBytes ==
    UNION { (wrote[i].end - 1 - Len(wrote[i].pUsr.pStr))..(wrote[i].end - 2) :
            i \in {j \in Calls("prop") :
                      /\ wrote[j].propType \in {"PROPTYPE_PSZ", "PROPTYPE_CSTR"}
                      /\ ~wrote[j].pUsr.null} }

\* the bytes of the damage
DamageBytes == {wrote[i].end : i \in Calls("garbage")}

\* as claimed: a header parses after a resynchronisation only at a header
\* line the serializer wrote
C24_AsClaimed ==
    [][(Resynced /\ pc' = "oid") => strm.pos \in HeaderStarts]_vars

\* amended: the position is a '<' that follows a newline, and it is the start
\* of a written header line or lies inside text that is on the stream
\* verbatim: a string value, or the damage itself
C24_ResyncLanding ==
    [][(Resynced /\ pc' = "oid") =>
        /\ strm.pos > 1
        /\ strm.buf[strm.pos] = COOKIE_OBJLINE
        /\ strm.buf[strm.pos - 1] = NL
        /\ strm.pos \in HeaderStarts \cup StringValueBytes \cup DamageBytes]_vars

\* a header has parsed from inside the string value: the scan stopped at the
\* '<' of the value, and the header was read up to the newline that ends
\* the property line
C24_Witness ==
    /\ pc = "oid"
    /\ Unreads # {}
    /\ NumOf("prop") = 1
    /\ wrote[ThePropLine].pUsr.pStr = FakeHeader
    /\ strm.pos = wrote[ThePropLine].end
    /\ call.oID = 1

(***************************************************************************)
(* C25  Every property line that SerializeProp writes while returning      *)
(* success is accepted by objDeserializeProperty: whatever property type   *)
(* was passed in (one the type switch does not handle is written with type *)
(* tag VARTYPE_NONE and length 0) and whatever the present value, reading  *)
(* the line gives no property-frame, number or delimiter failure.          *)
(***************************************************************************)
\* the lines SerializeProp wrote while returning success
WrittenLines ==
    {i \in Calls("prop") : wrote[i].iRet = RS_RET_OK /\ wrote[i].end > EndBefore(i)}
\* the property loop is about to read written line number i from its first byte
AtLine(i) == pc = "props" /\ strm.iUngetC = <<>> /\ strm.pos = EndBefore(i)

C25_WrittenLinesAccepted ==
    [][\A i \in WrittenLines :
          AtLine(i) =>
              call'.iRet \notin {RS_RET_INVALID_PROPFRAME, RS_RET_INVALID_NUMBER,
                                 RS_RET_INVALID_DELIMITER}]_vars

====
